---------------------------- MODULE Spec2Model ----------------------------
(***************************************************************************)
(* A model of the Anthropic <-> OpenAI translation proxy.                  *)
(*                                                                         *)
(*   Spec          the stream translator (app/streaming.py): one run of    *)
(*                 handle_streaming over a sequence of upstream chunks.    *)
(*   SpecResponse  the non-streaming response translator                   *)
(*                 (app/converters/litellm_to_anthropic.py).               *)
(*   SpecRequest   the request path of create_message: the request         *)
(*                 translator (app/converters/anthropic_to_litellm.py)     *)
(*                 followed by the provider normalizer for openai models.  *)
(*   SpecNormalizer  process_openai_request (app/utils/                    *)
(*                 openai_compatibility.py) on any message list.           *)
(*   SpecRouter    validate_and_map_model (app/models.py) under a          *)
(*                 configuration, applied to a name and to its own output. *)
(*   SpecStreams   two runs of handle_streaming whose turns interleave.     *)
(*   SpecIllTyped  one run of handle_streaming over chunks some of which   *)
(*                 _process_chunk cannot process.                          *)
(*                                                                         *)
(* Python's None is the empty set and a present value v is {v}, so that an *)
(* optional string and an optional integer are compared without mixing     *)
(* types.  SSE frames are records that mirror the JSON payload of each     *)
(* frame; the random message id of message_start is left out.              *)
(*                                                                         *)
(* Upstream chunks are objects typed as the chat-completion chunk schema   *)
(* types them (delta.content an optional string, tool-call fragments with  *)
(* index, id and function attributes, finish_reason an optional string),   *)
(* so the uuid default of a missing tool-call id is never taken.  One      *)
(* chunk is ill-formed (choices is None): _process_chunk raises on it and  *)
(* the loop of handle_streaming skips it.                                  *)
(***************************************************************************)
EXTENDS Integers, Sequences, FiniteSets, TLC

VARIABLES
    pc,               \* position of handle_streaming ("idle" in SpecResponse)
    upstream,         \* "open", "ended" (iteration ended normally), "failed" (it raised)
    consumed,         \* history: the chunks read from response_generator, in order
    out,              \* history: the frames yielded to the client, in order
    streaming_state,  \* the StreamingState object
    original_request, \* the request under translation (its model is what matters)
    litellm_response, \* non-streaming: the upstream response
    rpc,              \* non-streaming: "call" before, "returned" after the conversion ("idle" in Spec)
    result,           \* non-streaming: what convert_litellm_to_anthropic returned
    qpc,              \* request path: "convert", "normalize", "call" ("idle" elsewhere)
    litellm_request,  \* request path: the dict built for litellm
    normalizer_input, \* history: litellm_request as process_openai_request received it
    Config,           \* router: PREFERRED_PROVIDER, BIG_MODEL, SMALL_MODEL
    model_trail,      \* router: the name received, then each validate_and_map_model result
    streams,          \* concurrent streams: each generator's locals, by stream ("idle": none)
    heap              \* concurrent streams: the StreamingState objects, by reference

svars == <<pc, upstream, consumed, out, streaming_state>>
rvars == <<litellm_response, rpc, result>>
qvars == <<qpc, litellm_request, normalizer_input>>
mvars == <<Config, model_trail>>
ovars == <<qpc, litellm_request, normalizer_input, Config, model_trail>>
cvars == <<streams, heap>>
vars == <<pc, upstream, consumed, out, streaming_state, original_request,
          litellm_response, rpc, result, qpc, litellm_request,
          normalizer_input, Config, model_trail, streams, heap>>

None == {}
Some(v) == {v}
The(o) == CHOOSE v \in o : TRUE

\* The configuration when the environment sets nothing.
DefaultConfig ==
    [PREFERRED_PROVIDER |-> "openai", BIG_MODEL |-> "gpt-4.1",
     SMALL_MODEL |-> "gpt-4.1-mini"]

RequestIdle ==
    /\ qpc = "idle"
    /\ litellm_request = None
    /\ normalizer_input = None

RouterIdle ==
    /\ Config = DefaultConfig
    /\ model_trail = <<>>

StreamsIdle ==
    /\ streams = <<>>
    /\ heap = <<>>

(***************************************************************************)
(* Bounds and input alphabets.                                             *)
(***************************************************************************)
MaxChunks == 4

TextDeltas == {"", "He", "llo"}
FinishReasons == {"stop", "length", "tool_calls", "content_filter"}

CallId(i) == IF i = 5 THEN "call_five" ELSE "call_seven"
ToolName(i) == IF i = 5 THEN "get_weather" ELSE "get_time"

\* The fragment that announces a tool call (id and name, no arguments yet).
OpenFragment(i) ==
    [index |-> i, id |-> Some(CallId(i)),
     function |-> [name |-> ToolName(i), arguments |-> ""]]

\* A later fragment of the same call: arguments only.
ArgFragment(i, a) ==
    [index |-> i, id |-> None, function |-> [name |-> "", arguments |-> a]]

Chunk(usage, content, tool_calls, finish_reason) ==
    [usage |-> usage,
     choices |-> Some(<<[delta |-> [content |-> content, tool_calls |-> tool_calls],
                         finish_reason |-> finish_reason]>>)]

UsageChunk ==
    [usage |-> Some([prompt_tokens |-> 11, completion_tokens |-> 7]),
     choices |-> Some(<<>>)]

\* A chunk _process_chunk cannot process: its choices attribute is None, so
\* len(chunk.choices) raises TypeError after the usage has been read.
NullChoicesChunk ==
    [usage |-> Some([prompt_tokens |-> 11, completion_tokens |-> 9]),
     choices |-> None]

TextChunks == {Chunk(None, Some(t), <<>>, None) : t \in TextDeltas}

ToolChunks ==
    {Chunk(None, None, <<OpenFragment(5)>>, None),
     Chunk(None, None, <<ArgFragment(5, "{\"q\":")>>, None),
     Chunk(None, None, <<OpenFragment(7), ArgFragment(7, "{}")>>, None)}

FinishChunks == {Chunk(None, None, <<>>, Some(f)) : f \in FinishReasons}

Chunks ==
    {UsageChunk, NullChoicesChunk} \cup TextChunks \cup ToolChunks \cup FinishChunks

(***************************************************************************)
(* SSE frames.                                                             *)
(***************************************************************************)
MessageStartFrame(model) ==
    [event |-> "message_start",
     message |-> [type |-> "message", role |-> "assistant", model |-> model,
                  content |-> <<>>, stop_reason |-> None, stop_sequence |-> None,
                  usage |-> [input_tokens |-> 0,
                             cache_creation_input_tokens |-> 0,
                             cache_read_input_tokens |-> 0,
                             output_tokens |-> 0]]]

TextBlockStartFrame ==
    [event |-> "content_block_start", index |-> 0,
     content_block |-> [type |-> "text", text |-> ""]]

PingFrame == [event |-> "ping"]

ToolBlockStartFrame(i, tool_id, name) ==
    [event |-> "content_block_start", index |-> i,
     content_block |-> [type |-> "tool_use", id |-> tool_id, name |-> name,
                        input |-> "{}"]]

TextDeltaFrame(text) ==
    [event |-> "content_block_delta", index |-> 0,
     delta |-> [type |-> "text_delta", text |-> text]]

InputJsonDeltaFrame(i, partial_json) ==
    [event |-> "content_block_delta", index |-> i,
     delta |-> [type |-> "input_json_delta", partial_json |-> partial_json]]

BlockStopFrame(i) == [event |-> "content_block_stop", index |-> i]

MessageDeltaFrame(stop_reason, output_tokens) ==
    [event |-> "message_delta",
     delta |-> [stop_reason |-> stop_reason, stop_sequence |-> None],
     usage |-> [output_tokens |-> output_tokens]]

MessageStopFrame == [event |-> "message_stop"]

DoneFrame == [event |-> "[DONE]"]

\* json.loads / json.dumps on the argument strings of the model: whether the text
\* parses, the kind of value it parses to, and the value written back in
\* json.dumps' default and indent=2 layouts.
JsonTable(s) ==
    CASE s = "{}" ->
           [ok |-> TRUE, kind |-> "object", json |-> "{}", pretty |-> "{}"]
      [] s = "{\"city\": \"Paris\"}" ->
           [ok |-> TRUE, kind |-> "object", json |-> "{\"city\": \"Paris\"}",
            pretty |-> "{\n  \"city\": \"Paris\"\n}"]
      [] s = "{ \"n\" : 1 }" ->
           [ok |-> TRUE, kind |-> "object", json |-> "{\"n\": 1}",
            pretty |-> "{\n  \"n\": 1\n}"]
      [] s = "[1, 2]" ->
           [ok |-> TRUE, kind |-> "array", json |-> "[1, 2]",
            pretty |-> "[\n  1,\n  2\n]"]
      [] s = "42" ->
           [ok |-> TRUE, kind |-> "number", json |-> "42", pretty |-> "42"]
      [] s = "\"text\"" ->
           [ok |-> TRUE, kind |-> "string", json |-> "\"text\"",
            pretty |-> "\"text\""]
      [] s = "null" ->
           [ok |-> TRUE, kind |-> "null", json |-> "null", pretty |-> "null"]
      [] OTHER ->
           [ok |-> FALSE, kind |-> "", json |-> "", pretty |-> ""]

json_parses(s) == JsonTable(s).ok

(***************************************************************************)
(* StreamingState and the per-chunk processing.  Every operator below maps *)
(* a StreamingState to the StreamingState the Python function leaves.      *)
(***************************************************************************)
StreamingState ==
    [tool_index |-> None,
     current_tool_call |-> None,
     tool_content |-> "",
     accumulated_text |-> "",
     text_sent |-> FALSE,
     text_block_closed |-> FALSE,
     input_tokens |-> 0,
     output_tokens |-> 0,
     has_sent_stop_reason |-> FALSE,
     last_tool_index |-> 0,
     events |-> <<>>]

add_event(state, event) == [state EXCEPT !.events = Append(@, event)]

get_and_clear_events(state) == [state EXCEPT !.events = <<>>]

\* content_block_stop for the tool blocks 1..n, in ascending order
ToolBlockStops(n) == [i \in 1..n |-> BlockStopFrame(i)]

\* Mutant of finalize: the tool blocks are left open.
finalize_LeavesToolBlocksOpen(state) ==
    (IF ~state.text_block_closed
        THEN (IF state.accumulated_text # "" /\ ~state.text_sent
                 THEN <<TextDeltaFrame(state.accumulated_text)>> ELSE <<>>)
             \o <<BlockStopFrame(0)>>
        ELSE <<>>)
    \o <<MessageDeltaFrame("end_turn", state.output_tokens),
         MessageStopFrame, DoneFrame>>

finalize(state) ==
    (IF state.tool_index # None
        THEN ToolBlockStops(state.last_tool_index) ELSE <<>>)
    \o (IF ~state.text_block_closed
        THEN (IF state.accumulated_text # "" /\ ~state.text_sent
                 THEN <<TextDeltaFrame(state.accumulated_text)>> ELSE <<>>)
             \o <<BlockStopFrame(0)>>
        ELSE <<>>)
    \o <<MessageDeltaFrame("end_turn", state.output_tokens),
         MessageStopFrame, DoneFrame>>

\* Mutant of _process_text_content: the event carries the accumulated text
\* instead of the delta.
_process_text_content_SendsAccumulated(delta, state) ==
    LET delta_content == delta.content
    IN  IF delta_content # None /\ The(delta_content) # ""
           THEN LET s1 == [state EXCEPT
                              !.accumulated_text = @ \o The(delta_content)]
                IN  IF s1.tool_index = None /\ ~s1.text_block_closed
                       THEN add_event([s1 EXCEPT !.text_sent = TRUE],
                                      TextDeltaFrame(s1.accumulated_text))
                       ELSE s1
           ELSE state

\* Mutant of _process_text_content: every delta is sent, whatever blocks
\* are open.
_process_text_content_IgnoresToolState(delta, state) ==
    LET delta_content == delta.content
    IN  IF delta_content # None /\ The(delta_content) # ""
           THEN add_event([state EXCEPT
                              !.accumulated_text = @ \o The(delta_content),
                              !.text_sent = TRUE],
                          TextDeltaFrame(The(delta_content)))
           ELSE state

_process_text_content(delta, state) ==
    LET delta_content == delta.content
    IN  IF delta_content # None /\ The(delta_content) # ""
           THEN LET s1 == [state EXCEPT
                              !.accumulated_text = @ \o The(delta_content)]
                IN  IF s1.tool_index = None /\ ~s1.text_block_closed
                       THEN add_event([s1 EXCEPT !.text_sent = TRUE],
                                      TextDeltaFrame(The(delta_content)))
                       ELSE s1
           ELSE state

\* Mutant of _handle_first_tool_call: with no text at all the text block is
\* left open.
_handle_first_tool_call_SkipsEmptyText(state) ==
    IF state.text_sent /\ ~state.text_block_closed
       THEN add_event([state EXCEPT !.text_block_closed = TRUE],
                      BlockStopFrame(0))
    ELSE IF state.accumulated_text # "" /\ ~state.text_sent
            /\ ~state.text_block_closed
       THEN add_event(
                add_event([state EXCEPT !.text_sent = TRUE,
                                        !.text_block_closed = TRUE],
                          TextDeltaFrame(state.accumulated_text)),
                BlockStopFrame(0))
    ELSE state

\* Mutant of _handle_first_tool_call: the accumulated text is sent again
\* before the text block is closed.
_handle_first_tool_call_FlushesAgain(state) ==
    IF ~state.text_block_closed
       THEN add_event(
                add_event([state EXCEPT !.text_sent = TRUE,
                                        !.text_block_closed = TRUE],
                          TextDeltaFrame(state.accumulated_text)),
                BlockStopFrame(0))
       ELSE state

_handle_first_tool_call(state) ==
    IF state.text_sent /\ ~state.text_block_closed
       THEN add_event([state EXCEPT !.text_block_closed = TRUE],
                      BlockStopFrame(0))
    ELSE IF state.accumulated_text # "" /\ ~state.text_sent
            /\ ~state.text_block_closed
       THEN add_event(
                add_event([state EXCEPT !.text_sent = TRUE,
                                        !.text_block_closed = TRUE],
                          TextDeltaFrame(state.accumulated_text)),
                BlockStopFrame(0))
    ELSE IF ~state.text_block_closed
       THEN add_event([state EXCEPT !.text_block_closed = TRUE],
                      BlockStopFrame(0))
    ELSE state

\* Mutant of _process_single_tool_call: the delta carries the buffer of the
\* block instead of the fragment.
_process_single_tool_call_SendsBuffer(tool_call, state) ==
    LET current_index == tool_call.index
        s1 == IF state.tool_index = None
                 \/ Some(current_index) # state.tool_index
                 THEN add_event(
                          [state EXCEPT
                              !.tool_index = Some(current_index),
                              !.last_tool_index = @ + 1,
                              !.current_tool_call = Some(tool_call),
                              !.tool_content = ""],
                          ToolBlockStartFrame(state.last_tool_index + 1,
                                              tool_call.id,
                                              tool_call.function.name))
                 ELSE state
        arguments == tool_call.function.arguments
    IN  IF arguments # ""
           THEN add_event([s1 EXCEPT !.tool_content = @ \o arguments],
                          InputJsonDeltaFrame(s1.last_tool_index,
                                              s1.tool_content \o arguments))
           ELSE s1

_process_single_tool_call(tool_call, state) ==
    LET current_index == tool_call.index
        s1 == IF state.tool_index = None
                 \/ Some(current_index) # state.tool_index
                 THEN add_event(
                          [state EXCEPT
                              !.tool_index = Some(current_index),
                              !.last_tool_index = @ + 1,
                              !.current_tool_call = Some(tool_call),
                              !.tool_content = ""],
                          ToolBlockStartFrame(state.last_tool_index + 1,
                                              tool_call.id,
                                              tool_call.function.name))
                 ELSE state
        arguments == tool_call.function.arguments
        \* json.loads only validates: the text is kept whether it parses or not
        args_json == IF json_parses(arguments) THEN arguments ELSE arguments
    IN  IF arguments # ""
           THEN add_event([s1 EXCEPT !.tool_content = @ \o args_json],
                          InputJsonDeltaFrame(s1.last_tool_index, args_json))
           ELSE s1

RECURSIVE ProcessEachToolCall(_, _)
ProcessEachToolCall(tool_calls, state) ==
    IF tool_calls = <<>>
       THEN state
       ELSE ProcessEachToolCall(
                Tail(tool_calls),
                _process_single_tool_call(Head(tool_calls), state))

_process_tool_calls(delta, state) ==
    LET delta_tool_calls == delta.tool_calls
    IN  IF delta_tool_calls # <<>>
           THEN ProcessEachToolCall(
                    delta_tool_calls,
                    IF state.tool_index = None
                       THEN _handle_first_tool_call(state) ELSE state)
           ELSE state

\* Mutant of stop_reason_mapping: a finish reason outside the table is
\* reported as stop_sequence.
stop_reason_mapping_UnknownIsStopSequence(finish_reason) ==
    CASE finish_reason = "length" -> "max_tokens"
      [] finish_reason = "tool_calls" -> "tool_use"
      [] finish_reason = "stop" -> "end_turn"
      [] OTHER -> "stop_sequence"

stop_reason_mapping(finish_reason) ==
    CASE finish_reason = "length" -> "max_tokens"
      [] finish_reason = "tool_calls" -> "tool_use"
      [] finish_reason = "stop" -> "end_turn"
      [] OTHER -> "end_turn"

\* A finish_reason that is not a string: the list ['stop'], written as its
\* Python literal.  A list is truthy and cannot be a dict key.
UnhashableReasons == {"['stop']"}

hashable(value) == value \notin UnhashableReasons

RECURSIVE AddEvents(_, _)
AddEvents(state, events) ==
    IF events = <<>> THEN state
    ELSE AddEvents(add_event(state, Head(events)), Tail(events))

_process_finish_reason(finish_reason, state) ==
    LET s1 == [state EXCEPT !.has_sent_stop_reason = TRUE]
        s2 == IF s1.tool_index # None
                 THEN AddEvents(s1, ToolBlockStops(s1.last_tool_index))
                 ELSE s1
        s3 == IF ~s2.text_block_closed
                 THEN add_event(
                          IF s2.accumulated_text # "" /\ ~s2.text_sent
                             THEN add_event(s2, TextDeltaFrame(s2.accumulated_text))
                             ELSE s2,
                          BlockStopFrame(0))
                 ELSE s2
    IN  IF ~hashable(finish_reason)
           THEN s3  \* stop_reason_mapping.get raises TypeError (line 276)
           ELSE AddEvents(s3, <<MessageDeltaFrame(stop_reason_mapping(finish_reason),
                                                  s3.output_tokens),
                                MessageStopFrame, DoneFrame>>)

\* Mutant of _process_chunk: the has_sent_stop_reason guard is missing, so
\* every finish_reason is acted on.
_process_chunk_EveryFinishReason(chunk, state) ==
    LET s1 == IF chunk.usage # None
                 THEN [state EXCEPT
                          !.input_tokens = The(chunk.usage).prompt_tokens,
                          !.output_tokens = The(chunk.usage).completion_tokens]
                 ELSE state
    IN  IF chunk.choices # None /\ Len(The(chunk.choices)) > 0
           THEN LET choice == The(chunk.choices)[1]
                    delta == choice.delta
                    finish_reason == choice.finish_reason
                    s2 == _process_text_content(delta, s1)
                    s3 == _process_tool_calls(delta, s2)
                IN  IF finish_reason # None
                       THEN _process_finish_reason(The(finish_reason), s3)
                       ELSE s3
           ELSE s1

\* whether _process_chunk raises on the chunk: len(None) at line 133, or a
\* finish_reason that is acted on (line 145) and cannot be looked up (line 276)
_process_chunk_raises(chunk, state) ==
    \/ chunk.choices = None
    \/ /\ Len(The(chunk.choices)) > 0
       /\ The(chunk.choices)[1].finish_reason # None
       /\ ~state.has_sent_stop_reason
       /\ ~hashable(The(The(chunk.choices)[1].finish_reason))

\* The state _process_chunk leaves when it returns or, on a chunk it cannot
\* process, when it raises.
_process_chunk(chunk, state) ==
    LET s1 == IF chunk.usage # None
                 THEN [state EXCEPT
                          !.input_tokens = The(chunk.usage).prompt_tokens,
                          !.output_tokens = The(chunk.usage).completion_tokens]
                 ELSE state
    IN  IF chunk.choices # None /\ Len(The(chunk.choices)) > 0
           THEN LET choice == The(chunk.choices)[1]
                    delta == choice.delta
                    finish_reason == choice.finish_reason
                    s2 == _process_text_content(delta, s1)
                    s3 == _process_tool_calls(delta, s2)
                IN  IF finish_reason # None /\ ~s3.has_sent_stop_reason
                       THEN _process_finish_reason(The(finish_reason), s3)
                       ELSE s3
           ELSE s1

(***************************************************************************)
(* handle_streaming: the preamble, the chunk loop, the two ways it ends.   *)
(***************************************************************************)
StreamRequest == [model |-> "openai/gpt-4o", stream |-> TRUE]

ResponseIdle ==
    /\ litellm_response = None
    /\ rpc = "idle"
    /\ result = None

Init ==
    /\ pc = "message_start"
    /\ upstream = "open"
    /\ consumed = <<>>
    /\ out = <<>>
    /\ streaming_state = StreamingState
    /\ original_request = StreamRequest
    /\ ResponseIdle
    /\ RequestIdle
    /\ RouterIdle
    /\ StreamsIdle

YieldMessageStart ==
    /\ pc = "message_start"
    /\ out' = Append(out, MessageStartFrame(original_request.model))
    /\ pc' = "content_block_start"
    /\ UNCHANGED <<upstream, consumed, streaming_state, original_request, rvars, ovars, cvars>>

\* Mutant of YieldTextBlockStart: the ping is sent in its place.
YieldTextBlockStart_PingFirst ==
    /\ pc = "content_block_start"
    /\ out' = Append(out, PingFrame)
    /\ pc' = "ping"
    /\ UNCHANGED <<upstream, consumed, streaming_state, original_request, rvars, ovars, cvars>>

YieldTextBlockStart ==
    /\ pc = "content_block_start"
    /\ out' = Append(out, TextBlockStartFrame)
    /\ pc' = "ping"
    /\ UNCHANGED <<upstream, consumed, streaming_state, original_request, rvars, ovars, cvars>>

YieldPing ==
    /\ pc = "ping"
    /\ out' = Append(out, PingFrame)
    /\ streaming_state' = StreamingState
    /\ pc' = "loop"
    /\ UNCHANGED <<upstream, consumed, original_request, rvars, ovars, cvars>>

\* One turn of `async for chunk in response_generator`: the chunk is
\* processed and the events it queued are yielded; when the processing
\* raises, the except clause logs and continues, and nothing is yielded or
\* cleared in this turn.
ReadChunk(chunk) ==
    /\ pc = "loop"
    /\ Len(consumed) < MaxChunks
    /\ consumed' = Append(consumed, chunk)
    /\ LET state == _process_chunk(chunk, streaming_state)
       IN  IF _process_chunk_raises(chunk, streaming_state)
              THEN /\ out' = out
                   /\ streaming_state' = state
              ELSE /\ out' = out \o state.events
                   /\ streaming_state' = get_and_clear_events(state)
    /\ UNCHANGED <<pc, upstream, original_request, rvars, ovars, cvars>>

\* The iteration ends normally; finalize unless a finish reason did it.
EndOfStream ==
    /\ pc = "loop"
    /\ upstream' = "ended"
    /\ out' = IF ~streaming_state.has_sent_stop_reason
                 THEN out \o finalize(streaming_state)
                 ELSE out
    /\ pc' = "done"
    /\ UNCHANGED <<consumed, streaming_state, original_request, rvars, ovars, cvars>>

\* The iteration raises: the outer except sends the error terminal.
UpstreamError ==
    /\ pc = "loop"
    /\ upstream' = "failed"
    /\ out' = out \o <<MessageDeltaFrame("error", 0), MessageStopFrame, DoneFrame>>
    /\ pc' = "done"
    /\ UNCHANGED <<consumed, streaming_state, original_request, rvars, ovars, cvars>>

Next ==
    \/ YieldMessageStart
    \/ YieldTextBlockStart
    \/ YieldPing
    \/ \E chunk \in Chunks : ReadChunk(chunk)
    \/ EndOfStream
    \/ UpstreamError

Spec == Init /\ [][Next]_vars


(***************************************************************************)
(* Vocabulary for the stream translator's properties.                      *)
(***************************************************************************)
Last3(s) == SubSeq(s, Len(s) - 2, Len(s))

IsToolStart(f) ==
    f.event = "content_block_start" /\ f.content_block.type = "tool_use"

IsTextDelta(f) ==
    f.event = "content_block_delta" /\ f.delta.type = "text_delta"

HasChoice(chunk) == chunk.choices # None /\ Len(The(chunk.choices)) > 0

Choice(chunk) == The(chunk.choices)[1]

CarriesFinish(chunk) ==
    HasChoice(chunk) /\ Choice(chunk).finish_reason # None

CarriesToolCalls(chunk) ==
    HasChoice(chunk) /\ Choice(chunk).delta.tool_calls # <<>>

CarriesText(chunk) ==
    /\ HasChoice(chunk)
    /\ Choice(chunk).delta.content # None
    /\ The(Choice(chunk).delta.content) # ""

FinishChunksRead == SelectSeq(consumed, CarriesFinish)

\* the upstream tool indices of all fragments read, in arrival order
RECURSIVE FragmentIndices(_)
FragmentIndices(chunks) ==
    IF chunks = <<>> THEN <<>>
    ELSE (IF HasChoice(Head(chunks))
             THEN [k \in 1..Len(Choice(Head(chunks)).delta.tool_calls) |->
                      Choice(Head(chunks)).delta.tool_calls[k].index]
             ELSE <<>>)
         \o FragmentIndices(Tail(chunks))

\* a sequence without its repetitions, in order of first appearance
RECURSIVE FirstAppearances(_)
FirstAppearances(s) ==
    IF s = <<>> THEN <<>>
    ELSE LET init == FirstAppearances(SubSeq(s, 1, Len(s) - 1))
             x == s[Len(s)]
         IN  IF \E k \in 1..Len(init) : init[k] = x THEN init ELSE Append(init, x)

\* the non-empty text deltas read, in arrival order
TextDeltasRead ==
    LET withText == SelectSeq(consumed, CarriesText)
    IN  [k \in 1..Len(withText) |-> The(Choice(withText[k]).delta.content)]

RECURSIVE Concat(_)
Concat(strings) ==
    IF strings = <<>> THEN "" ELSE Head(strings) \o Concat(Tail(strings))

TextDeltasSent ==
    LET frames == SelectSeq(out, IsTextDelta)
    IN  [k \in 1..Len(frames) |-> frames[k].delta.text]

Positions(event) == {i \in 1..Len(out) : out[i].event = event}

Preamble ==
    <<MessageStartFrame(original_request.model), TextBlockStartFrame, PingFrame>>

(***************************************************************************)
(* C1 (as claimed): a tool_use content_block_start is emitted exactly once *)
(* per distinct upstream tool index, and the Anthropic block indices are   *)
(* 1, 2, ... in order of first appearance of the upstream indices; a       *)
(* fragment whose upstream index was seen before opens no block.           *)
(***************************************************************************)
C1_ToolIndexStability ==
    LET starts == SelectSeq(out, IsToolStart)
        firsts == FirstAppearances(FragmentIndices(consumed))
    IN  /\ Len(starts) = Len(firsts)
        /\ \A k \in 1..Len(starts) : starts[k].index = k

(***************************************************************************)
(* C2: a stream whose chunks carry no finish_reason and whose upstream     *)
(* iteration ends normally has every started block stopped, and then ends  *)
(* with message_delta (stop_reason end_turn), message_stop, [DONE].        *)
(***************************************************************************)
C2_EarlyTerminationFinalize ==
    (pc = "done" /\ upstream = "ended" /\ FinishChunksRead = <<>>) =>
        LET n == Len(out)
        IN  /\ n >= 3
            /\ out[n - 2].event = "message_delta"
            /\ out[n - 2].delta.stop_reason = "end_turn"
            /\ out[n - 1] = MessageStopFrame
            /\ out[n] = DoneFrame
            /\ \A i \in 1..n :
                  out[i].event = "content_block_start" =>
                      \E j \in (i + 1)..(n - 3) :
                          out[j] = BlockStopFrame(out[i].index)

C2_Witness ==
    /\ pc = "done" /\ upstream = "ended" /\ FinishChunksRead = <<>>
    /\ streaming_state.last_tool_index >= 2
    /\ streaming_state.accumulated_text # ""

(***************************************************************************)
(* C3 (as claimed): once [DONE] has been emitted no further frame is       *)
(* emitted, so [DONE] occurs only as the last frame of the stream.         *)
(***************************************************************************)
C3_DoneIsFinalFrame ==
    \A i \in 1..Len(out) : out[i] = DoneFrame => i = Len(out)

(***************************************************************************)
(* C4: when the upstream iteration does not raise, the stream carries      *)
(* exactly one message_delta, one message_stop and one [DONE], in that     *)
(* order; the stop reason is that of the first finish_reason read, and     *)
(* end_turn when there was none.  While the stream runs there is at most   *)
(* one of each.                                                            *)
(***************************************************************************)
C4_FinishOnce ==
    LET deltas == Positions("message_delta")
        stops == Positions("message_stop")
        dones == Positions("[DONE]")
    IN  /\ upstream # "failed" =>
              /\ Cardinality(deltas) <= 1
              /\ Cardinality(stops) <= 1
              /\ Cardinality(dones) <= 1
        /\ (pc = "done" /\ upstream = "ended") =>
              /\ Cardinality(deltas) = 1
              /\ Cardinality(stops) = 1
              /\ Cardinality(dones) = 1
              /\ The(deltas) < The(stops)
              /\ The(stops) < The(dones)
              /\ out[The(deltas)].delta.stop_reason =
                    IF FinishChunksRead = <<>>
                       THEN "end_turn"
                       ELSE stop_reason_mapping(
                                The(Choice(FinishChunksRead[1]).finish_reason))

C4_Witness ==
    /\ pc = "done" /\ upstream = "ended"
    /\ Len(FinishChunksRead) >= 2
    /\ Choice(FinishChunksRead[1]).finish_reason = Some("length")
    /\ Choice(FinishChunksRead[2]).finish_reason = Some("tool_calls")

(***************************************************************************)
(* C5: when no chunk read carries a tool call, the accumulated text is the *)
(* concatenation S of the text deltas read, and the text_delta frames      *)
(* emitted are exactly the non-empty deltas, one frame each, in chunk      *)
(* order (so their concatenation is S as well).                            *)
(***************************************************************************)
C5_TextReconstruction ==
    (\A k \in 1..Len(consumed) : ~CarriesToolCalls(consumed[k])) =>
        /\ streaming_state.accumulated_text = Concat(TextDeltasRead)
        /\ TextDeltasSent = TextDeltasRead
        /\ \A i \in 1..Len(out) : IsTextDelta(out[i]) => out[i].index = 0

C5_Witness ==
    /\ pc = "done" /\ upstream = "ended"
    /\ \A k \in 1..Len(consumed) : consumed[k] \in TextChunks
    /\ \E k \in 1..Len(consumed) : ~CarriesText(consumed[k])
    /\ TextDeltasRead = <<"He", "llo">>
    /\ streaming_state.accumulated_text = "Hello"

(***************************************************************************)
(* C6: the first three frames of every stream are message_start (zero      *)
(* usage, empty content, null stop_reason), content_block_start of an      *)
(* empty text block at index 0, and ping; no chunk is read and the         *)
(* upstream is not touched before all three are out.                       *)
(***************************************************************************)
C6_Preamble ==
    /\ (consumed # <<>> \/ upstream # "open" \/ pc \in {"loop", "done"}) =>
          /\ Len(out) >= 3
          /\ out[1].event = "message_start"
          /\ out[1].message.content = <<>>
          /\ out[1].message.stop_reason = None
          /\ out[1].message.usage.input_tokens = 0
          /\ out[1].message.usage.output_tokens = 0
          /\ out[2].event = "content_block_start"
          /\ out[2].index = 0
          /\ out[2].content_block = [type |-> "text", text |-> ""]
          /\ out[3] = PingFrame
    /\ Len(out) < 3 => out = SubSeq(Preamble, 1, Len(out))

C6_Witness ==
    pc = "done" /\ consumed = <<>> /\ upstream = "ended" /\ Len(out) > 3

(***************************************************************************)
(* C7 (as claimed): a failed upstream iteration ends the stream with       *)
(* message_delta (stop_reason error, output_tokens 0), message_stop,       *)
(* [DONE]; and every stream, failed or not, ends with a message_delta,     *)
(* message_stop, [DONE] triple.                                            *)
(***************************************************************************)
C7_ErrorTerminal ==
    pc = "done" =>
        /\ Len(out) >= 3
        /\ Last3(out)[1].event = "message_delta"
        /\ Last3(out)[2] = MessageStopFrame
        /\ Last3(out)[3] = DoneFrame
        /\ upstream = "failed" =>
              Last3(out)[1] = MessageDeltaFrame("error", 0)


(***************************************************************************)
(* The non-streaming response translator (litellm_to_anthropic.py).        *)
(*                                                                         *)
(* An upstream response is object-style (attributes choices and usage) or  *)
(* mapping-style; its fields are typed as the chat-completion schema types *)
(* them (content: optional string, usage token counts: integers), while    *)
(* the argument string of a tool call is whatever text the model wrote.    *)
(***************************************************************************)
StartsWith(s, prefix) ==
    Len(s) >= Len(prefix) /\ SubSeq(s, 1, Len(prefix)) = prefix

StripPrefix(s, prefix) == SubSeq(s, Len(prefix) + 1, Len(s))

RequestModels ==
    {"claude-3-opus", "anthropic/claude-3-opus", "openai/gpt-4o",
     "gemini/gemini-2.0-flash"}

ArgStrings ==
    {"{}", "{\"city\": \"Paris\"}", "{ \"n\" : 1 }", "[1, 2]", "42",
     "\"text\"", "null", "{\"city\": ", ""}

\* the Python value json.loads returns, for a text that parses
json_loads(s) == [kind |-> JsonTable(s).kind, json |-> JsonTable(s).json]

\* json.dumps(value, indent=2) of a value json_loads returned for s
json_dumps_indent2(s) == JsonTable(s).pretty

\* the dict {"raw": arguments}
RawArguments(arguments) == [kind |-> "object", raw |-> arguments]

ToolCall(id, name, arguments) ==
    [id |-> id, function |-> [name |-> name, arguments |-> arguments]]

ToolCallLists ==
    {<<ToolCall("call_1", "get_weather", a)>> : a \in ArgStrings}
    \cup {<<ToolCall("call_1", "get_weather", "{\"city\": \"Paris\"}"),
            ToolCall("call_2", "get_time", "{}")>>}

UpstreamUsage == {None, Some([prompt_tokens |-> 11, completion_tokens |-> 7])}

UpstreamChoices ==
    {<<>>}
    \cup {<<[message |-> [content |-> c, tool_calls |-> t], finish_reason |-> f]>> :
            c \in {None, Some(""), Some("Hi")},
            t \in {None, Some(<<>>)} \cup {Some(l) : l \in ToolCallLists},
            f \in {None} \cup {Some(r) : r \in FinishReasons}}

UpstreamResponses ==
    [style : {"object", "mapping"}, id : {"chatcmpl-1"},
     choices : UpstreamChoices, usage : UpstreamUsage]

_extract_response_data(response) ==
    LET choices == response.choices
        has == Len(choices) > 0
    IN  IF response.style = "object"
           THEN \* hasattr(choices) and hasattr(usage): attributes are read
                [content_text |-> IF has THEN choices[1].message.content ELSE Some(""),
                 tool_calls |-> IF has THEN choices[1].message.tool_calls ELSE None,
                 finish_reason |-> IF has THEN choices[1].finish_reason ELSE Some("stop"),
                 usage_info |-> response.usage,
                 response_id |-> response.id]
           ELSE \* a mapping: with no choice the message is {} and .get defaults apply
                LET message == IF has THEN choices[1].message
                               ELSE [content |-> Some(""), tool_calls |-> None]
                IN  [content_text |-> message.content,
                     tool_calls |-> message.tool_calls,
                     finish_reason |-> IF has THEN choices[1].finish_reason
                                       ELSE Some("stop"),
                     usage_info |-> response.usage,
                     response_id |-> response.id]

TextBlock(text) == [type |-> "text", text |-> text]

ToolUseBlock(id, name, input) ==
    [type |-> "tool_use", id |-> id, name |-> name, input |-> input]

\* Mutant of _process_tool_calls_for_claude: the argument string is never
\* parsed, every call gets the {"raw": ...} fallback.
RECURSIVE _process_tool_calls_for_claude_NeverParses(_)
_process_tool_calls_for_claude_NeverParses(tool_calls) ==
    IF tool_calls = <<>> THEN <<>>
    ELSE LET tool_call == Head(tool_calls)
         IN  <<ToolUseBlock(tool_call.id, tool_call.function.name,
                            RawArguments(tool_call.function.arguments))>>
             \o _process_tool_calls_for_claude_NeverParses(Tail(tool_calls))

RECURSIVE _process_tool_calls_for_claude(_)
_process_tool_calls_for_claude(tool_calls) ==
    IF tool_calls = <<>> THEN <<>>
    ELSE LET tool_call == Head(tool_calls)
             arguments == tool_call.function.arguments
         IN  <<ToolUseBlock(tool_call.id, tool_call.function.name,
                            IF json_parses(arguments)
                               THEN json_loads(arguments)
                               ELSE RawArguments(arguments))>>
             \o _process_tool_calls_for_claude(Tail(tool_calls))

RECURSIVE ToolCallsText(_)
ToolCallsText(tool_calls) ==
    IF tool_calls = <<>> THEN ""
    ELSE LET tool_call == Head(tool_calls)
             arguments == tool_call.function.arguments
             arguments_str == IF json_parses(arguments)
                                 THEN json_dumps_indent2(arguments)
                                 ELSE arguments
         IN  "Tool: " \o tool_call.function.name \o "\nArguments: "
             \o arguments_str \o "\n\n" \o ToolCallsText(Tail(tool_calls))

_convert_tool_calls_to_text(tool_calls) ==
    "\n\nTool usage:\n" \o ToolCallsText(tool_calls)

\* Mutant of _build_content_blocks: for a destination without tool_use blocks
\* the rendering always becomes a block of its own.
_build_content_blocks_SeparateBlock(response_data, is_claude_model) ==
    LET content_text == response_data.content_text
        tool_calls == response_data.tool_calls
        has_tools == tool_calls # None /\ The(tool_calls) # <<>>
        content == IF content_text # None /\ The(content_text) # ""
                      THEN <<TextBlock(The(content_text))>> ELSE <<>>
    IN  IF has_tools /\ is_claude_model
           THEN content \o _process_tool_calls_for_claude(The(tool_calls))
        ELSE IF has_tools /\ ~is_claude_model
           THEN Append(content,
                       TextBlock(_convert_tool_calls_to_text(The(tool_calls))))
        ELSE content

_build_content_blocks(response_data, is_claude_model) ==
    LET content_text == response_data.content_text
        tool_calls == response_data.tool_calls
        has_tools == tool_calls # None /\ The(tool_calls) # <<>>
        content == IF content_text # None /\ The(content_text) # ""
                      THEN <<TextBlock(The(content_text))>> ELSE <<>>
    IN  IF has_tools /\ is_claude_model
           THEN content \o _process_tool_calls_for_claude(The(tool_calls))
        ELSE IF has_tools /\ ~is_claude_model
           THEN LET tool_text == _convert_tool_calls_to_text(The(tool_calls))
                IN  IF content # <<>> /\ content[1].type = "text"
                       THEN <<TextBlock(content[1].text \o tool_text)>>
                       ELSE Append(content, TextBlock(tool_text))
        ELSE content

_extract_usage_info(response_data) ==
    LET usage_info == response_data.usage_info
    IN  IF usage_info = None
           THEN [input_tokens |-> 0, output_tokens |-> 0]
           ELSE [input_tokens |-> The(usage_info).prompt_tokens,
                 output_tokens |-> The(usage_info).completion_tokens]

_map_finish_reason_to_stop_reason(finish_reason) ==
    CASE finish_reason = Some("stop") -> "end_turn"
      [] finish_reason = Some("length") -> "max_tokens"
      [] finish_reason = Some("tool_calls") -> "tool_use"
      [] OTHER -> "end_turn"

is_claude_model(model) ==
    LET clean_model ==
            IF StartsWith(model, "anthropic/") THEN StripPrefix(model, "anthropic/")
            ELSE IF StartsWith(model, "openai/") THEN StripPrefix(model, "openai/")
            ELSE model
    IN  StartsWith(clean_model, "claude-")

\* pydantic's validation of one element of MessagesResponse.content
ContentBlockValid(block) ==
    \/ block.type = "text"
    \/ block.type = "tool_use" /\ block.input.kind = "object"

MessagesResponse(id, model, content, stop_reason, usage) ==
    [id |-> id, model |-> model, role |-> "assistant", content |-> content,
     type |-> "message", stop_reason |-> stop_reason, stop_sequence |-> None,
     usage |-> [input_tokens |-> usage.input_tokens,
                output_tokens |-> usage.output_tokens,
                cache_creation_input_tokens |-> 0,
                cache_read_input_tokens |-> 0]]

\* The try block of convert_litellm_to_anthropic: the response it builds, or
\* the exception MessagesResponse raises when a content block is invalid.
Raised(error) == [raised |-> TRUE, error |-> error]
Returned(value) == [raised |-> FALSE, value |-> value]

\* Mutant of ConvertTry: the empty-content guard is missing.
ConvertTry_NoEmptyGuard(response, request) ==
    LET response_data == _extract_response_data(response)
        content == _build_content_blocks(response_data, is_claude_model(request.model))
        usage_info == _extract_usage_info(response_data)
        stop_reason == _map_finish_reason_to_stop_reason(response_data.finish_reason)
    IN  IF \A k \in 1..Len(content) : ContentBlockValid(content[k])
           THEN Returned(MessagesResponse(response_data.response_id, request.model,
                                          content, stop_reason, usage_info))
           ELSE Raised("validation error for MessagesResponse")

ConvertTry(response, request) ==
    LET response_data == _extract_response_data(response)
        built == _build_content_blocks(response_data, is_claude_model(request.model))
        usage_info == _extract_usage_info(response_data)
        stop_reason == _map_finish_reason_to_stop_reason(response_data.finish_reason)
        content == IF built = <<>> THEN <<TextBlock("")>> ELSE built
    IN  IF \A k \in 1..Len(content) : ContentBlockValid(content[k])
           THEN Returned(MessagesResponse(response_data.response_id, request.model,
                                          content, stop_reason, usage_info))
           ELSE Raised("validation error for MessagesResponse")

ErrorText(error) ==
    "Error converting response: " \o error \o ". Please check server logs."

FallbackResponse(request, error) ==
    MessagesResponse("msg_uuid", request.model, <<TextBlock(ErrorText(error))>>,
                     "end_turn", [input_tokens |-> 0, output_tokens |-> 0])

\* Mutant of convert_litellm_to_anthropic: no except clause, the exception
\* reaches the caller.
convert_litellm_to_anthropic_NoExcept(response, request) ==
    LET try == ConvertTry(response, request)
    IN  IF try.raised THEN try ELSE try.value

convert_litellm_to_anthropic(response, request) ==
    LET try == ConvertTry(response, request)
    IN  IF try.raised THEN FallbackResponse(request, try.error) ELSE try.value

StreamIdle ==
    /\ pc = "idle"
    /\ upstream = "idle"
    /\ consumed = <<>>
    /\ out = <<>>
    /\ streaming_state = StreamingState

InitResponse ==
    /\ original_request \in [model : RequestModels, stream : {FALSE}]
    /\ litellm_response \in {Some(r) : r \in UpstreamResponses}
    /\ rpc = "call"
    /\ result = None
    /\ StreamIdle
    /\ RequestIdle
    /\ RouterIdle
    /\ StreamsIdle

\* litellm.completion has returned; create_message converts the response.
Convert ==
    /\ rpc = "call"
    /\ result' = Some(convert_litellm_to_anthropic(The(litellm_response),
                                                   original_request))
    /\ rpc' = "returned"
    /\ UNCHANGED <<svars, original_request, litellm_response, ovars, cvars>>

NextResponse == Convert

SpecResponse == InitResponse /\ [][NextResponse]_vars


(***************************************************************************)
(* Vocabulary for the response translator's properties.                    *)
(***************************************************************************)
Returning == rpc = "returned"

UpstreamMessage == The(litellm_response).choices[1].message

\* the upstream response carries exactly one tool call
OneToolCall ==
    /\ Len(The(litellm_response).choices) > 0
    /\ UpstreamMessage.tool_calls # None
    /\ Len(The(UpstreamMessage.tool_calls)) = 1

TheToolCallArguments == The(UpstreamMessage.tool_calls)[1].function.arguments

\* the upstream response has empty or null text and no tool calls
EmptyTextNoToolCalls ==
    \/ The(litellm_response).choices = <<>>
    \/ /\ UpstreamMessage.content \in {None, Some("")}
       /\ UpstreamMessage.tool_calls \in {None, Some(<<>>)}

IsToolUse(block) == block.type = "tool_use"

ToolUseBlocks(response) == SelectSeq(response.content, IsToolUse)

\* the destination is named claude-..., bare or behind anthropic/ or openai/
ClaudeDestination ==
    original_request.model \in {"claude-3-opus", "anthropic/claude-3-opus"}

(***************************************************************************)
(* C8 (as claimed): for a Claude destination and an upstream response with *)
(* one tool call whose argument string is valid JSON of any kind, the      *)
(* response has exactly one tool_use block, whose input is the parsed      *)
(* JSON.                                                                   *)
(***************************************************************************)
C8_ToolUseForAnyJson ==
    (Returning /\ ClaudeDestination /\ OneToolCall
       /\ json_parses(TheToolCallArguments)) =>
        /\ Len(ToolUseBlocks(The(result))) = 1
        /\ ToolUseBlocks(The(result))[1].input = json_loads(TheToolCallArguments)

(***************************************************************************)
(* C8 (amended): the same for every argument string that is the text of a  *)
(* JSON object.                                                            *)
(***************************************************************************)
C8_ToolUseForJsonObject ==
    (Returning /\ ClaudeDestination /\ OneToolCall
       /\ json_parses(TheToolCallArguments)
       /\ JsonTable(TheToolCallArguments).kind = "object") =>
        /\ Len(ToolUseBlocks(The(result))) = 1
        /\ ToolUseBlocks(The(result))[1].input = json_loads(TheToolCallArguments)

C8_Witness ==
    /\ Returning /\ ClaudeDestination /\ OneToolCall
    /\ TheToolCallArguments = "{ \"n\" : 1 }"
    /\ UpstreamMessage.content = Some("Hi")
    /\ Len(The(result).content) = 2
    /\ The(result).content[2].input = [kind |-> "object", json |-> "{\"n\": 1}"]

(***************************************************************************)
(* C9: the translator returns a response for every upstream response, and  *)
(* when the conversion fails inside it returns the degraded response: one  *)
(* text block with the error text, zero usage, stop_reason end_turn.       *)
(***************************************************************************)
IsMessagesResponse(r) ==
    /\ DOMAIN r = {"id", "model", "role", "content", "type", "stop_reason",
                   "stop_sequence", "usage"}
    /\ r.role = "assistant"
    /\ r.type = "message"
    /\ r.model = original_request.model
    /\ r.stop_reason \in {"end_turn", "max_tokens", "stop_sequence", "tool_use"}
    /\ \A k \in 1..Len(r.content) : ContentBlockValid(r.content[k])

ConversionFails == ConvertTry(The(litellm_response), original_request).raised

C9_NeverRaises ==
    Returning =>
        /\ IsMessagesResponse(The(result))
        /\ ConversionFails =>
              /\ Len(The(result).content) = 1
              /\ The(result).content[1].type = "text"
              /\ StartsWith(The(result).content[1].text, "Error converting response: ")
              /\ The(result).usage.input_tokens = 0
              /\ The(result).usage.output_tokens = 0
              /\ The(result).stop_reason = "end_turn"

C9_Witness ==
    /\ Returning /\ ConversionFails
    /\ The(litellm_response).usage # None
    /\ The(litellm_response).choices[1].finish_reason = Some("tool_calls")
    /\ The(result).stop_reason = "end_turn"

(***************************************************************************)
(* C10: the content of every returned response has at least one block, and *)
(* for an upstream response with empty or null text and no tool calls it   *)
(* is exactly one text block whose text is the empty string.               *)
(***************************************************************************)
C10_ContentNeverEmpty ==
    Returning =>
        /\ Len(The(result).content) >= 1
        /\ EmptyTextNoToolCalls => The(result).content = <<TextBlock("")>>

C10_Witness ==
    /\ Returning
    /\ Len(The(litellm_response).choices) > 0
    /\ UpstreamMessage.content = None
    /\ UpstreamMessage.tool_calls = Some(<<>>)
    /\ The(result).content = <<TextBlock("")>>

(***************************************************************************)
(* Vocabulary for C11: an upstream response with tool calls, sent to a     *)
(* destination that is not a Claude model.                                 *)
(***************************************************************************)
HasToolCalls ==
    /\ Len(The(litellm_response).choices) > 0
    /\ UpstreamMessage.tool_calls # None
    /\ The(UpstreamMessage.tool_calls) # <<>>

HasResponseText ==
    UpstreamMessage.content # None /\ The(UpstreamMessage.content) # ""

\* "Tool: <name>" / "Arguments: <json>" for each call, in call order
RECURSIVE Rendering(_)
Rendering(tool_calls) ==
    IF tool_calls = <<>> THEN ""
    ELSE "Tool: " \o Head(tool_calls).function.name \o "\nArguments: "
         \o (IF json_parses(Head(tool_calls).function.arguments)
                THEN json_dumps_indent2(Head(tool_calls).function.arguments)
                ELSE Head(tool_calls).function.arguments)
         \o "\n\n" \o Rendering(Tail(tool_calls))

RenderedToolCalls ==
    "\n\nTool usage:\n" \o Rendering(The(UpstreamMessage.tool_calls))

NonClaudeWithToolCalls ==
    Returning /\ ~is_claude_model(original_request.model) /\ HasToolCalls

(***************************************************************************)
(* C11 (as claimed): for a destination that is not a Claude model and an   *)
(* upstream response with tool calls, the content has no tool_use block    *)
(* and the rendering of the calls is a text block of its own, appended     *)
(* after the text block of the response text when there is one.            *)
(***************************************************************************)
C11_RenderingIsAppendedBlock ==
    NonClaudeWithToolCalls =>
        /\ ToolUseBlocks(The(result)) = <<>>
        /\ The(result).content =
              (IF HasResponseText
                  THEN <<TextBlock(The(UpstreamMessage.content))>> ELSE <<>>)
              \o <<TextBlock(RenderedToolCalls)>>

(***************************************************************************)
(* C11 (amended): the content has no tool_use block and is one text block: *)
(* the response text, when there is one, followed by the rendering of the  *)
(* calls in the same block.                                                *)
(***************************************************************************)
C11_RenderingIsAppendedText ==
    NonClaudeWithToolCalls =>
        /\ ToolUseBlocks(The(result)) = <<>>
        /\ The(result).content =
              <<TextBlock((IF HasResponseText THEN The(UpstreamMessage.content)
                                              ELSE "")
                          \o RenderedToolCalls)>>

C11_Witness ==
    /\ NonClaudeWithToolCalls /\ HasResponseText
    /\ Len(The(UpstreamMessage.tool_calls)) = 2
    /\ The(result).content =
          <<TextBlock("Hi\n\nTool usage:\nTool: get_weather\nArguments: "
                      \o "{\n  \"city\": \"Paris\"\n}\n\n"
                      \o "Tool: get_time\nArguments: {}\n\n")>>

(***************************************************************************)
(* Vocabulary for C12: the finish reason a stream reports (that of the     *)
(* first chunk carrying one, None when no chunk carried one) and the stop  *)
(* reason the mapping table of the specification gives it.                 *)
(***************************************************************************)
StreamFinishReason ==
    IF FinishChunksRead = <<>> THEN None
    ELSE Choice(FinishChunksRead[1]).finish_reason

TableStopReason(finish_reason) ==
    IF finish_reason = Some("stop") THEN "end_turn"
    ELSE IF finish_reason = Some("length") THEN "max_tokens"
    ELSE IF finish_reason = Some("tool_calls") THEN "tool_use"
    ELSE "end_turn"

FirstMessageDelta ==
    LET deltas == Positions("message_delta")
    IN  out[CHOOSE i \in deltas : \A j \in deltas : i <= j]

(***************************************************************************)
(* C12: the stop reason of a stream whose upstream did not fail before a   *)
(* finish reason arrived is stop -> end_turn, length -> max_tokens,        *)
(* tool_calls -> tool_use, anything else or nothing -> end_turn; and it is *)
(* the stop reason the non-streaming translator gives the same finish      *)
(* reason.                                                                 *)
(***************************************************************************)
C12_FinishReasonMapping ==
    \* the two tables by themselves (the same in every state)
    /\ consumed = <<>> =>
          \A f \in {None} \cup {Some(r) : r \in FinishReasons} :
              _map_finish_reason_to_stop_reason(f) = TableStopReason(f)
    /\ (FinishChunksRead # <<>> \/ (pc = "done" /\ upstream = "ended")) =>
          LET stop_reason == FirstMessageDelta.delta.stop_reason
              finish_reason == StreamFinishReason
          IN  /\ Positions("message_delta") # {}
              /\ stop_reason = TableStopReason(finish_reason)
              /\ stop_reason = _map_finish_reason_to_stop_reason(finish_reason)

C12_Witness ==
    /\ pc = "done" /\ upstream = "ended"
    /\ StreamFinishReason = Some("content_filter")
    /\ Len(FinishChunksRead) >= 2
    /\ Choice(FinishChunksRead[2]).finish_reason = Some("length")
    /\ FirstMessageDelta.delta.stop_reason = "end_turn"


(***************************************************************************)
(* The request path of create_message (routes.py): the request translator  *)
(* (anthropic_to_litellm.py), the api key, and for a model whose name      *)
(* contains "openai" the provider normalizer (openai_compatibility.py).    *)
(*                                                                         *)
(* A Python value whose type the code tests (isinstance) carries its type: *)
(* Str(s), List(l), Dict(d), PyNone.  A dict whose keys the code reads     *)
(* with .get / in is a function from its keys.  Requests are those the     *)
(* pydantic MessagesRequest accepts (roles user and assistant; text,       *)
(* image, tool_use and tool_result blocks); they carry no tools,           *)
(* stop_sequences, top_p or top_k, and temperature has its default.        *)
(***************************************************************************)
Str(s) == [str |-> s]
List(l) == [list |-> l]
Dict(d) == [dict |-> d]
PyNone == [none |-> TRUE]
EmptyDict == [key \in {} |-> ""]

\* isinstance(value, type) and the value inside, for the typed values above
isinstance(value, type) == type \in DOMAIN value
Value(value) == value[The(DOMAIN value)]

\* dict.get(key) with None for a missing key
Get(d, key) == IF key \in DOMAIN d THEN Some(d[key]) ELSE None

IsSpace(c) == c \in {" ", "\n", "\t"}

RECURSIVE lstrip(_)
lstrip(s) ==
    IF Len(s) > 0 /\ IsSpace(SubSeq(s, 1, 1))
       THEN lstrip(SubSeq(s, 2, Len(s))) ELSE s

RECURSIVE rstrip(_)
rstrip(s) ==
    IF Len(s) > 0 /\ IsSpace(SubSeq(s, Len(s), Len(s)))
       THEN rstrip(SubSeq(s, 1, Len(s) - 1)) ELSE s

\* str.strip()
strip(s) == rstrip(lstrip(s))

\* `sub in s` for strings
Contains(s, sub) ==
    \E i \in 1..(Len(s) - Len(sub) + 1) : SubSeq(s, i, i + Len(sub) - 1) = sub

MaxBlocks == 2

ImageSource == [type |-> "base64", media_type |-> "image/png", data |-> "aGk="]
ImageBlock == [type |-> "image", source |-> ImageSource]
ToolResultBlock(tool_use_id, content) ==
    [type |-> "tool_result", tool_use_id |-> tool_use_id, content |-> content]

\* json.dumps of the dicts that reach it: a tool input is written as its
\* JSON text, the image dict key by key.
json_dumps(value) ==
    IF value = ImageBlock
       THEN "{\"type\": \"image\", \"source\": {\"type\": \"base64\", "
            \o "\"media_type\": \"image/png\", \"data\": \"aGk=\"}}"
    ELSE IF value = TextBlock("42")
       THEN "{\"type\": \"text\", \"text\": \"42\"}"
    ELSE value.json

\* str() of the dict that reaches it
py_str(value) ==
    IF value = TextBlock("42") THEN "{'type': 'text', 'text': '42'}"
    ELSE json_dumps(value)

ToolResultContents ==
    {Str("42"), Str(""), List(<<TextBlock("42")>>), List(<<ImageBlock>>),
     Dict(TextBlock("42"))}

RequestBlocks ==
    {TextBlock("see"), TextBlock(" "), ImageBlock,
     ToolUseBlock("t1", "get_weather", json_loads("{\"city\": \"Paris\"}"))}
    \cup {ToolResultBlock("t1", c) : c \in ToolResultContents}

BlockLists(blocks) ==
    UNION {[1..n -> blocks] : n \in 0..MaxBlocks}

RequestMessages ==
    [role : {"user", "assistant"},
     content : {Str("Hi"), Str("")} \cup {List(l) : l \in BlockLists(RequestBlocks)}]

\* one message, or the message after an opening user turn
MessageLists ==
    {<<m>> : m \in RequestMessages}
    \cup {<<[role |-> "user", content |-> Str("Hi")], m>> : m \in RequestMessages}

SystemPrompts == {None, Some(Str("Be brief")), Some(List(<<TextBlock("Be brief")>>))}

ToolChoices ==
    {None, Some(EmptyDict), Some([type |-> "auto"]), Some([type |-> "any"]),
     Some([type |-> "tool", name |-> "get_weather"]), Some([type |-> "tool"]),
     Some([type |-> "none"]), Some([name |-> "get_weather"])}

MessagesRequest(model, max_tokens, messages, system, tool_choice) ==
    [model |-> model, max_tokens |-> max_tokens, messages |-> messages,
     system |-> system, stream |-> FALSE, tool_choice |-> tool_choice]

\* Every message list under three destinations, and every tool_choice and
\* system prompt for one conversation.
AnthropicRequests ==
    {MessagesRequest(model, 4096, messages, None, None) :
        model \in {"openai/gpt-4o", "gemini/gemini-2.0-flash",
                   "anthropic/claude-3-opus"},
        messages \in MessageLists}
    \cup {MessagesRequest("openai/gpt-4o", max_tokens,
                          <<[role |-> "user", content |-> Str("Hi")]>>,
                          system, tool_choice) :
            max_tokens \in {4096, 32000}, system \in SystemPrompts,
            tool_choice \in ToolChoices}

(***************************************************************************)
(* The request translator.                                                 *)
(***************************************************************************)
\* the text of one item of a tool result's list content, with its newline
ToolResultItemText(item) ==
    IF Get(item, "type") = Some("text") THEN item.text \o "\n"
    ELSE IF "text" \in DOMAIN item THEN item.text \o "\n"
    ELSE json_dumps(item) \o "\n"

RECURSIVE ToolResultItemsText(_)
ToolResultItemsText(items) ==
    IF items = <<>> THEN ""
    ELSE ToolResultItemText(Head(items)) \o ToolResultItemsText(Tail(items))

_extract_tool_result_content(block) ==
    LET content == block.content
    IN  CASE isinstance(content, "str") -> Value(content)
          [] isinstance(content, "list") -> ToolResultItemsText(Value(content))
          [] isinstance(content, "dict") ->
               IF Get(Value(content), "type") = Some("text")
                  THEN Value(content).text
                  ELSE json_dumps(Value(content))

_process_content_block(block) ==
    CASE block.type = "text" -> [type |-> "text", text |-> block.text]
      [] block.type = "image" -> [type |-> "image", source |-> block.source]
      [] block.type = "tool_use" ->
           [type |-> "tool_use", id |-> block.id, name |-> block.name,
            input |-> block.input]
      [] block.type = "tool_result" ->
           [type |-> "tool_result", tool_use_id |-> block.tool_use_id,
            content |->
               CASE isinstance(block.content, "str") ->
                      List(<<[type |-> "text", text |-> Value(block.content)]>>)
                 [] isinstance(block.content, "list") -> block.content
                 [] OTHER ->
                      List(<<[type |-> "text", text |-> py_str(Value(block.content))]>>)]

\* the text the tool-result branch collects from the blocks of a message
RECURSIVE ToolResultMessageText(_)
ToolResultMessageText(content) ==
    IF content = <<>> THEN ""
    ELSE LET block == Head(content)
         IN  (CASE block.type = "text" -> block.text \o "\n"
                [] block.type = "tool_result" ->
                     "Tool result for " \o block.tool_use_id \o ":\n"
                     \o _extract_tool_result_content(block) \o "\n"
                [] OTHER -> "")
             \o ToolResultMessageText(Tail(content))

\* one turn of the loop over anthropic_request.messages
ConvertMessage(msg) ==
    IF isinstance(msg.content, "str")
       THEN [role |-> msg.role, content |-> msg.content]
    ELSE IF /\ msg.role = "user"
            /\ \E k \in 1..Len(Value(msg.content)) : Value(msg.content)[k].type = "tool_result"
       THEN [role |-> "user",
             content |-> Str(strip(ToolResultMessageText(Value(msg.content))))]
    ELSE [role |-> msg.role,
          content |-> List([k \in 1..Len(Value(msg.content)) |->
                               _process_content_block(Value(msg.content)[k])])]

RECURSIVE SystemText(_)
SystemText(blocks) ==
    IF blocks = <<>> THEN ""
    ELSE (IF Head(blocks).type = "text" THEN Head(blocks).text \o "\n\n" ELSE "")
         \o SystemText(Tail(blocks))

\* the system message that opens the list, if the request has a system prompt
SystemMessages(system) ==
    IF system = None THEN <<>>
    ELSE IF isinstance(The(system), "str")
       THEN IF Value(The(system)) # ""
               THEN <<[role |-> "system", content |-> The(system)]>> ELSE <<>>
    ELSE IF Value(The(system)) # <<>> /\ SystemText(Value(The(system))) # ""
       THEN <<[role |-> "system",
               content |-> Str(strip(SystemText(Value(The(system)))))]>>
    ELSE <<>>

\* Mutant of _convert_tool_choice_to_openai_format: every choice that names
\* a type is passed through as that type.
_convert_tool_choice_to_openai_format_PassesType(tool_choice) ==
    IF "type" \in DOMAIN tool_choice THEN Str(tool_choice.type) ELSE Str("auto")

_convert_tool_choice_to_openai_format(tool_choice) ==
    LET choice_type == Get(tool_choice, "type")
    IN  IF choice_type = Some("auto") THEN Str("auto")
        ELSE IF choice_type = Some("any") THEN Str("any")
        ELSE IF choice_type = Some("tool") /\ "name" \in DOMAIN tool_choice
           THEN Dict([type |-> "function",
                      function |-> [name |-> tool_choice.name]])
        ELSE Str("auto")

MaxTokensCap == 16384

Min(a, b) == IF a < b THEN a ELSE b

convert_anthropic_to_litellm(anthropic_request) ==
    LET messages ==
            SystemMessages(anthropic_request.system)
            \o [k \in 1..Len(anthropic_request.messages) |->
                   ConvertMessage(anthropic_request.messages[k])]
        max_tokens ==
            IF \/ StartsWith(anthropic_request.model, "openai/")
               \/ StartsWith(anthropic_request.model, "gemini/")
               THEN Min(anthropic_request.max_tokens, MaxTokensCap)
               ELSE anthropic_request.max_tokens
        litellm_request_ ==
            [model |-> anthropic_request.model, messages |-> messages,
             max_tokens |-> max_tokens, temperature |-> 1,
             stream |-> anthropic_request.stream]
    IN  IF /\ anthropic_request.tool_choice # None
           /\ DOMAIN The(anthropic_request.tool_choice) # {}
           THEN litellm_request_ @@
                [tool_choice |-> _convert_tool_choice_to_openai_format(
                                     The(anthropic_request.tool_choice))]
           ELSE litellm_request_

\* _set_api_key: the key of the provider the model's prefix names
ApiKey(model) ==
    IF StartsWith(model, "openai/") THEN "sk-openai"
    ELSE IF StartsWith(model, "gemini/") THEN "sk-gemini"
    ELSE "sk-anthropic"

(***************************************************************************)
(* The provider normalizer (openai_compatibility.py).  A message is a dict *)
(* (a function from its keys); a block that is not a dict is a typed       *)
(* Python value (Str(s)).                                       *)
(***************************************************************************)
IsDict(block) == ~isinstance(block, "str")

json_dumps_content(result_content) ==
    IF isinstance(result_content, "none") THEN "null" ELSE json_dumps(Value(result_content))

RECURSIVE json_dumps_list(_)
json_dumps_list(items) ==
    IF items = <<>> THEN ""
    ELSE json_dumps(Head(items)) \o (IF Len(items) > 1 THEN ", " ELSE "")
         \o json_dumps_list(Tail(items))

supported_fields == {"role", "content", "name", "tool_call_id", "tool_calls"}

_remove_unsupported_fields(msg) ==
    [key \in DOMAIN msg \cap supported_fields |-> msg[key]]

_is_only_tool_result_message(content) ==
    /\ content # <<>>
    /\ \A k \in 1..Len(content) :
          IsDict(content[k]) /\ Get(content[k], "type") = Some("tool_result")

\* block.get("content", [])
ResultContent(block) ==
    IF "content" \in DOMAIN block THEN block.content ELSE List(<<>>)

RECURSIVE ExtractItems(_)
ExtractItems(items) ==
    IF items = <<>> THEN ""
    ELSE LET item == Head(items)
         IN  (IF ~IsDict(item) THEN ""
              ELSE IF Get(item, "type") = Some("text")
                 THEN (IF "text" \in DOMAIN item THEN item.text ELSE "") \o "\n"
              ELSE (IF "text" \in DOMAIN item THEN item.text ELSE json_dumps(item))
                   \o "\n")
             \o ExtractItems(Tail(items))

RECURSIVE ExtractBlocks(_)
ExtractBlocks(content) ==
    IF content = <<>> THEN ""
    ELSE LET result_content == ResultContent(Head(content))
         IN  "Tool Result:\n"
             \o (CASE isinstance(result_content, "list") -> ExtractItems(Value(result_content))
                   [] isinstance(result_content, "str") -> Value(result_content) \o "\n"
                   [] OTHER -> json_dumps_content(result_content) \o "\n")
             \o ExtractBlocks(Tail(content))

\* `text or "..."`
OrEllipsis(text) == IF text = "" THEN "..." ELSE text

\* Mutant of _extract_tool_result_text: the text is not trimmed.
_extract_tool_result_text_Untrimmed(content) == OrEllipsis(ExtractBlocks(content))

_extract_tool_result_text(content) == OrEllipsis(strip(ExtractBlocks(content)))

_extract_nested_tool_result_content(result_content) ==
    CASE isinstance(result_content, "list") -> ExtractItems(Value(result_content))
      [] isinstance(result_content, "dict") ->
           (IF Get(Value(result_content), "type") = Some("text")
               THEN (IF "text" \in DOMAIN Value(result_content)
                        THEN Value(result_content).text ELSE "")
               ELSE json_dumps(Value(result_content))) \o "\n"
      [] isinstance(result_content, "str") -> Value(result_content) \o "\n"
      [] OTHER -> json_dumps_content(result_content) \o "\n"

BlockText(block) ==
    IF ~IsDict(block) THEN ""
    ELSE LET block_type == Get(block, "type")
         IN  IF block_type = Some("text")
                THEN (IF "text" \in DOMAIN block THEN block.text ELSE "") \o "\n"
             ELSE IF block_type = Some("tool_result")
                THEN "[Tool Result ID: "
                     \o (IF "tool_use_id" \in DOMAIN block
                            THEN block.tool_use_id ELSE "unknown")
                     \o "]\n"
                     \o _extract_nested_tool_result_content(ResultContent(block))
             ELSE IF block_type = Some("tool_use")
                THEN "[Tool: "
                     \o (IF "name" \in DOMAIN block THEN block.name ELSE "unknown")
                     \o " (ID: "
                     \o (IF "id" \in DOMAIN block THEN block.id ELSE "unknown")
                     \o ")]\nInput: "
                     \o (IF "input" \in DOMAIN block
                            THEN json_dumps(block.input) ELSE "{}")
                     \o "\n\n"
             ELSE IF block_type = Some("image")
                THEN "[Image content - not displayed in text format]\n"
             ELSE ""

RECURSIVE BlocksText(_)
BlocksText(content) ==
    IF content = <<>> THEN ""
    ELSE BlockText(Head(content)) \o BlocksText(Tail(content))

_convert_content_blocks_to_text(content) == OrEllipsis(strip(BlocksText(content)))

HasListContent(msg) == "content" \in DOMAIN msg /\ isinstance(msg.content, "list")

\* msg.get("content") is None
HasNoneContent(msg) == "content" \notin DOMAIN msg \/ isinstance(msg.content, "none")

SetContent(msg, content) ==
    [key \in DOMAIN msg \cup {"content"} |->
        IF key = "content" THEN content ELSE msg[key]]

\* one turn of the loop of process_openai_request
ProcessMessage(msg) ==
    IF HasListContent(msg) /\ _is_only_tool_result_message(Value(msg.content))
       THEN \* continue: the rest of the loop body is skipped
            SetContent(msg, Str(_extract_tool_result_text(Value(msg.content))))
    ELSE _remove_unsupported_fields(
            IF HasListContent(msg)
               THEN SetContent(msg, Str(_convert_content_blocks_to_text(Value(msg.content))))
            ELSE IF HasNoneContent(msg)
               THEN SetContent(msg, Str("..."))
            ELSE msg)

ValidateMessage(msg) ==
    IF HasListContent(msg)
       THEN SetContent(msg, Str("Content as JSON: [" \o json_dumps_list(Value(msg.content))
                                \o "]"))
    ELSE IF HasNoneContent(msg)
       THEN SetContent(msg, Str("..."))
    ELSE msg

_validate_message_content(messages) ==
    [i \in 1..Len(messages) |-> ValidateMessage(messages[i])]

\* Mutant of process_openai_request: only the unsupported fields are removed.
process_openai_request_StripsFieldsOnly(request) ==
    [request EXCEPT !.messages =
        [i \in 1..Len(request.messages) |->
            _remove_unsupported_fields(request.messages[i])]]

process_openai_request(request) ==
    [request EXCEPT !.messages =
        _validate_message_content(
            [i \in 1..Len(request.messages) |-> ProcessMessage(request.messages[i])])]

(***************************************************************************)
(* create_message up to the call of litellm.                               *)
(***************************************************************************)
InitRequest ==
    /\ original_request \in AnthropicRequests
    /\ qpc = "convert"
    /\ litellm_request = None
    /\ normalizer_input = None
    /\ StreamIdle
    /\ ResponseIdle
    /\ RouterIdle
    /\ StreamsIdle

ConvertRequest ==
    /\ qpc = "convert"
    /\ litellm_request' = Some(convert_anthropic_to_litellm(original_request))
    /\ qpc' = "api_key"
    /\ UNCHANGED <<svars, rvars, mvars, cvars, original_request, normalizer_input>>

SetApiKey ==
    /\ qpc = "api_key"
    /\ litellm_request' =
          Some(The(litellm_request) @@ [api_key |-> ApiKey(original_request.model)])
    /\ qpc' = "normalize"
    /\ UNCHANGED <<svars, rvars, mvars, cvars, original_request, normalizer_input>>

ProcessOpenAIRequest ==
    /\ qpc = "normalize"
    /\ Contains(The(litellm_request).model, "openai")
    /\ litellm_request' = Some(process_openai_request(The(litellm_request)))
    /\ normalizer_input' = litellm_request
    /\ qpc' = "call"
    /\ UNCHANGED <<svars, rvars, mvars, cvars, original_request>>

\* a model whose name does not contain "openai" goes to litellm as it is
SkipOpenAIProcessing ==
    /\ qpc = "normalize"
    /\ ~Contains(The(litellm_request).model, "openai")
    /\ qpc' = "call"
    /\ UNCHANGED <<svars, rvars, mvars, cvars, original_request, litellm_request,
                   normalizer_input>>

NextRequest ==
    \/ ConvertRequest
    \/ SetApiKey
    \/ ProcessOpenAIRequest
    \/ SkipOpenAIProcessing

SpecRequest == InitRequest /\ [][NextRequest]_vars

(***************************************************************************)
(* process_openai_request on its own, for any list of message dicts.       *)
(***************************************************************************)
NormalizerBlocks ==
    {TextBlock("see"), TextBlock(" "), ImageBlock,
     ToolUseBlock("t1", "get_weather", json_loads("{\"city\": \"Paris\"}")),
     [type |-> "thinking", thinking |-> "hm"], Str("loose"),
     [type |-> "tool_result", tool_use_id |-> "t1"]}
    \cup {ToolResultBlock("t1", c) :
            c \in {Str("42"), List(<<TextBlock("42")>>), List(<<TextBlock("")>>),
                   List(<<ImageBlock>>), List(<<>>), PyNone}}

NormalizerContents ==
    {PyNone, Str(""), Str("  "), Str("Hi")}
    \cup {List(l) : l \in BlockLists(NormalizerBlocks)}

\* the keys a message may carry besides role and content
ExtraFields ==
    {EmptyDict, [name |-> "bob"], [cache_control |-> "ephemeral"],
     [tool_call_id |-> "call_1", tool_calls |-> "calls", refusal |-> "no"]}

NormalizerMessages ==
    {[role |-> role] @@ extra : role \in {"user", "assistant"}, extra \in ExtraFields}
    \cup {[role |-> role, content |-> content] @@ extra :
            role \in {"user", "assistant"}, content \in NormalizerContents,
            extra \in ExtraFields}

NormalizerRequests ==
    {[model |-> "openai/gpt-4o", messages |-> <<m>>] : m \in NormalizerMessages}
    \cup {[model |-> "openai/gpt-4o",
           messages |-> <<[role |-> "system", content |-> Str("Be brief")], m>>] :
            m \in NormalizerMessages}

InitNormalizer ==
    /\ original_request = [model |-> "openai/gpt-4o", stream |-> FALSE]
    /\ qpc = "normalize"
    /\ litellm_request \in {Some(r) : r \in NormalizerRequests}
    /\ normalizer_input = None
    /\ StreamIdle
    /\ ResponseIdle
    /\ RouterIdle
    /\ StreamsIdle

NextNormalizer == ProcessOpenAIRequest

SpecNormalizer == InitNormalizer /\ [][NextNormalizer]_vars

(***************************************************************************)
(* Vocabulary for the request translator's properties.                     *)
(***************************************************************************)
\* the request has been translated and has not yet been normalized
Translated == qpc \in {"api_key", "normalize"}

\* the number of messages the system prompt put before the conversation
SystemOffset ==
    Len(The(litellm_request).messages) - Len(original_request.messages)

\* the translation of the k-th message of the request
TranslationOf(k) == The(litellm_request).messages[k + SystemOffset]

OnlyToolResults(blocks) ==
    /\ blocks # <<>>
    /\ \A i \in 1..Len(blocks) : blocks[i].type = "tool_result"

RECURSIVE ToolResultLines(_)
ToolResultLines(blocks) ==
    IF blocks = <<>> THEN ""
    ELSE "Tool result for " \o Head(blocks).tool_use_id \o ":\n"
         \o _extract_tool_result_content(Head(blocks)) \o "\n"
         \o ToolResultLines(Tail(blocks))

(***************************************************************************)
(* C13 (as claimed): a user message with list content is flattened into    *)
(* one text ("Tool result for <tool_use_id>:" and the result text, per     *)
(* block) exactly when all of its blocks are tool_result blocks; every     *)
(* other message with list content is translated block for block, with     *)
(* the same number of blocks, in the same order, with the same types.      *)
(***************************************************************************)
C13_FlattenOnlyToolResultMessages ==
    Translated =>
        \A k \in 1..Len(original_request.messages) :
            LET msg == original_request.messages[k]
                blocks == Value(msg.content)
                translation == TranslationOf(k)
            IN  isinstance(msg.content, "list") =>
                    IF msg.role = "user" /\ OnlyToolResults(blocks)
                       THEN /\ isinstance(translation.content, "str")
                            /\ Value(translation.content) =
                                  strip(ToolResultLines(blocks))
                       ELSE /\ isinstance(translation.content, "list")
                            /\ Len(Value(translation.content)) = Len(blocks)
                            /\ \A i \in 1..Len(blocks) :
                                  Value(translation.content)[i].type = blocks[i].type

(***************************************************************************)
(* Vocabulary for the normalizer's properties.                             *)
(***************************************************************************)
\* process_openai_request has run
Normalized == qpc = "call" /\ normalizer_input # None

MessagesBefore == The(normalizer_input).messages
MessagesAfter == The(litellm_request).messages

\* msg.get("content") is a string
HasStringContent(msg) == "content" \in DOMAIN msg /\ isinstance(msg.content, "str")

(***************************************************************************)
(* C14: after process_openai_request every message has content that is a  *)
(* string: no list content, no None content and no missing content is      *)
(* left, whatever the content was before.                                  *)
(***************************************************************************)
C14_ContentIsString ==
    Normalized =>
        /\ Len(MessagesAfter) = Len(MessagesBefore)
        /\ \A i \in 1..Len(MessagesAfter) : HasStringContent(MessagesAfter[i])

C14_Witness ==
    /\ Normalized
    /\ Len(MessagesBefore) = 1
    /\ "content" \notin DOMAIN MessagesBefore[1]
    /\ HasStringContent(MessagesAfter[1])
    /\ Value(MessagesAfter[1].content) = "..."

(***************************************************************************)
(* C15 (as claimed): after process_openai_request no message has empty     *)
(* content, whatever its content was before: an empty result has been      *)
(* replaced by the placeholder "...".                                      *)
(***************************************************************************)
C15_ContentNeverEmpty ==
    Normalized =>
        \A i \in 1..Len(MessagesAfter) :
            /\ HasStringContent(MessagesAfter[i])
            /\ Value(MessagesAfter[i].content) # ""

(***************************************************************************)
(* C16 (as claimed): after process_openai_request every message, whichever *)
(* content rule applied to it, has no key outside role, content, name,     *)
(* tool_call_id, tool_calls, and its allowed keys other than content are   *)
(* as they were.                                                           *)
(***************************************************************************)
C16_OnlySupportedFields ==
    Normalized =>
        \A i \in 1..Len(MessagesAfter) :
            LET before == MessagesBefore[i]
                after == MessagesAfter[i]
            IN  /\ DOMAIN after \subseteq supported_fields
                /\ \A key \in (DOMAIN before \cap supported_fields) \ {"content"} :
                      key \in DOMAIN after /\ after[key] = before[key]

(***************************************************************************)
(* Vocabulary for C17: the request path has run to the call of litellm,    *)
(* for a model the normalizer applies to.                                  *)
(***************************************************************************)
ReadyForOpenAI ==
    /\ qpc = "call"
    /\ original_request \in AnthropicRequests
    /\ Contains(original_request.model, "openai")

\* what the tool-result-only rule of the normalizer makes of the blocks
ToolResultOnlyText(blocks) ==
    _extract_tool_result_text(
        [i \in 1..Len(blocks) |-> _process_content_block(blocks[i])])

(***************************************************************************)
(* C17 (as claimed): for a provider requiring flattened content, a message *)
(* made only of tool_result blocks ends up with the string "Tool Result:"  *)
(* and the extracted text per block, trimmed; the user message whose only  *)
(* block is the tool_result t1 with content "42" ends up with              *)
(* "Tool Result:\n42".                                                     *)
(***************************************************************************)
C17_ToolResultOnlyNormalization ==
    ReadyForOpenAI =>
        \A k \in 1..Len(original_request.messages) :
            LET msg == original_request.messages[k]
                final == TranslationOf(k)
            IN  (isinstance(msg.content, "list") /\ OnlyToolResults(Value(msg.content))) =>
                    /\ HasStringContent(final)
                    /\ Value(final.content) = ToolResultOnlyText(Value(msg.content))
                    /\ (msg.role = "user"
                          /\ Value(msg.content) = <<ToolResultBlock("t1", Str("42"))>>) =>
                             Value(final.content) = "Tool Result:\n42"

(***************************************************************************)
(* C17 (amended): on the request path the translator flattens a user       *)
(* message made only of tool_result blocks first, to "Tool result for      *)
(* <tool_use_id>:" and the result text per block, and the normalizer       *)
(* leaves that string alone: the user message [tool_result t1 "42"] ends   *)
(* up with "Tool result for t1:\n42".  The normalizer's rule ("Tool        *)
(* Result:" and the extracted text per block, trimmed) is what an          *)
(* assistant message made only of tool_result blocks ends up with.         *)
(***************************************************************************)
C17_ToolResultOnlyByRole ==
    ReadyForOpenAI =>
        \A k \in 1..Len(original_request.messages) :
            LET msg == original_request.messages[k]
                final == TranslationOf(k)
            IN  (isinstance(msg.content, "list") /\ OnlyToolResults(Value(msg.content))) =>
                    /\ HasStringContent(final)
                    /\ Value(final.content) =
                          IF msg.role = "user"
                             THEN strip(ToolResultLines(Value(msg.content)))
                             ELSE ToolResultOnlyText(Value(msg.content))
                    /\ Value(msg.content) = <<ToolResultBlock("t1", Str("42"))>> =>
                          Value(final.content) =
                             IF msg.role = "user" THEN "Tool result for t1:\n42"
                                                  ELSE "Tool Result:\n42"

C17_Witness ==
    /\ ReadyForOpenAI
    /\ normalizer_input # None
    /\ original_request.messages =
          <<[role |-> "user", content |-> List(<<ToolResultBlock("t1", Str("42"))>>)]>>
    /\ The(litellm_request).messages =
          <<[role |-> "user", content |-> Str("Tool result for t1:\n42")]>>

(***************************************************************************)
(* Vocabulary for C20: the tool_choice the specification's table gives a   *)
(* tool_choice of the request.                                             *)
(***************************************************************************)
TableToolChoice(tool_choice) ==
    IF Get(tool_choice, "type") = Some("auto") THEN Str("auto")
    ELSE IF Get(tool_choice, "type") = Some("any") THEN Str("any")
    ELSE IF Get(tool_choice, "type") = Some("tool") /\ "name" \in DOMAIN tool_choice
       THEN Dict([type |-> "function", function |-> [name |-> tool_choice.name]])
    ELSE Str("auto")

(***************************************************************************)
(* C20 (as claimed): for every tool_choice supplied in the request the     *)
(* translated request has a tool_choice: "auto" for type auto, "any" for   *)
(* type any, the forced function choice for type tool with a name, and     *)
(* "auto" for every other shape.                                           *)
(***************************************************************************)
C20_ToolChoiceForEverySupplied ==
    (qpc \in {"api_key", "normalize", "call"} /\ original_request.tool_choice # None) =>
        /\ "tool_choice" \in DOMAIN The(litellm_request)
        /\ The(litellm_request).tool_choice =
              TableToolChoice(The(original_request.tool_choice))

(***************************************************************************)
(* C20 (amended): the same for every tool_choice that is not the empty     *)
(* object; for the empty object, as for a request without tool_choice,     *)
(* the translated request has no tool_choice.                              *)
(***************************************************************************)
C20_ToolChoiceForEveryNonEmpty ==
    qpc \in {"api_key", "normalize", "call"} =>
        IF /\ original_request.tool_choice # None
           /\ The(original_request.tool_choice) # EmptyDict
           THEN /\ "tool_choice" \in DOMAIN The(litellm_request)
                /\ The(litellm_request).tool_choice =
                      TableToolChoice(The(original_request.tool_choice))
           ELSE "tool_choice" \notin DOMAIN The(litellm_request)

C20_Witness ==
    /\ qpc = "call"
    /\ original_request.tool_choice = Some([type |-> "tool", name |-> "get_weather"])
    /\ "tool_choice" \in DOMAIN The(litellm_request)
    /\ The(litellm_request).tool_choice =
          Dict([type |-> "function", function |-> [name |-> "get_weather"]])


(***************************************************************************)
(* The model router: validate_and_map_model (models.py) under a            *)
(* configuration (config.py), applied to the name a client sent and then   *)
(* to its own result.                                                      *)
(***************************************************************************)
OPENAI_MODELS ==
    {"o3-mini", "o1", "o1-mini", "o1-pro", "gpt-4.5-preview", "gpt-4o",
     "gpt-4o-audio-preview", "chatgpt-4o-latest", "gpt-4o-mini",
     "gpt-4o-mini-audio-preview", "gpt-4.1", "gpt-4.1-mini"}

GEMINI_MODELS ==
    {"gemini-2.5-pro-preview-03-25", "gemini-2.0-flash", "gemini-2.5-pro",
     "gemini-2.5-flash"}

\* str.lower() on one character: the capitals that occur in the names below
LowerChar(c) ==
    CASE c = "H" -> "h" [] c = "A" -> "a" [] c = "I" -> "i" [] c = "K" -> "k"
      [] c = "U" -> "u" [] c = "S" -> "s" [] c = "O" -> "o" [] c = "N" -> "n"
      [] c = "E" -> "e" [] c = "T" -> "t" [] OTHER -> c

RECURSIVE lower(_)
lower(s) ==
    IF s = "" THEN ""
    ELSE LowerChar(SubSeq(s, 1, 1)) \o lower(SubSeq(s, 2, Len(s)))

\* the name with one leading provider prefix removed
clean_model(model_name) ==
    IF StartsWith(model_name, "anthropic/") THEN StripPrefix(model_name, "anthropic/")
    ELSE IF StartsWith(model_name, "openai/") THEN StripPrefix(model_name, "openai/")
    ELSE IF StartsWith(model_name, "gemini/") THEN StripPrefix(model_name, "gemini/")
    ELSE model_name

\* the haiku and sonnet branches: the configured model under gemini/ when the
\* preferred provider is google and lists it, under openai/ otherwise
MapToConfigured(config, configured_model) ==
    IF config.PREFERRED_PROVIDER = "google" /\ configured_model \in GEMINI_MODELS
       THEN "gemini/" \o configured_model
       ELSE "openai/" \o configured_model

\* Mutant of validate_and_map_model: the alias is matched case-sensitively.
validate_and_map_model_CaseSensitive(model_name, config) ==
    LET clean == clean_model(model_name)
    IN  IF Contains(clean, "haiku")
           THEN MapToConfigured(config, config.SMALL_MODEL)
        ELSE IF Contains(clean, "sonnet")
           THEN MapToConfigured(config, config.BIG_MODEL)
        ELSE IF clean \in GEMINI_MODELS /\ ~StartsWith(model_name, "gemini/")
           THEN "gemini/" \o clean
        ELSE IF clean \in OPENAI_MODELS /\ ~StartsWith(model_name, "openai/")
           THEN "openai/" \o clean
        ELSE model_name

validate_and_map_model(model_name, config) ==
    LET clean == clean_model(model_name)
    IN  IF Contains(lower(clean), "haiku")
           THEN MapToConfigured(config, config.SMALL_MODEL)
        ELSE IF Contains(lower(clean), "sonnet")
           THEN MapToConfigured(config, config.BIG_MODEL)
        ELSE IF clean \in GEMINI_MODELS /\ ~StartsWith(model_name, "gemini/")
           THEN "gemini/" \o clean
        ELSE IF clean \in OPENAI_MODELS /\ ~StartsWith(model_name, "openai/")
           THEN "openai/" \o clean
        ELSE model_name

MaxRoutes == 2

\* PREFERRED_PROVIDER, BIG_MODEL and SMALL_MODEL as the environment may set them
Configs ==
    [PREFERRED_PROVIDER : {"openai", "google"},
     BIG_MODEL : {"gpt-4.1", "gemini-2.5-pro"},
     SMALL_MODEL : {"gpt-4.1-mini", "gemini-2.0-flash"}]

ModelNames ==
    {"claude-3-haiku", "anthropic/claude-3-HAIKU", "claude-3-5-sonnet",
     "openai/claude-Sonnet-haiku", "gpt-4o", "openai/gpt-4o", "gemini/gpt-4o",
     "anthropic/gpt-4o", "gemini-2.0-flash", "openai/gemini-2.0-flash",
     "gemini/gemini-2.0-flash", "claude-3-opus", "anthropic/claude-3-opus",
     "openai/openai/gpt-4o", "mistral-large", "gemini/unknown-model"}

InitRouter ==
    /\ Config \in Configs
    /\ model_trail \in {<<model_name>> : model_name \in ModelNames}
    /\ original_request = [model |-> "openai/gpt-4o", stream |-> FALSE]
    /\ StreamIdle
    /\ ResponseIdle
    /\ RequestIdle
    /\ StreamsIdle

\* the field validator of MessagesRequest.model runs on the latest name
ValidateModel ==
    /\ Len(model_trail) <= MaxRoutes
    /\ model_trail' =
          Append(model_trail,
                 validate_and_map_model(model_trail[Len(model_trail)], Config))
    /\ UNCHANGED <<svars, rvars, qvars, cvars, original_request, Config>>

NextRouter == ValidateModel

SpecRouter == InitRouter /\ [][NextRouter]_vars

(***************************************************************************)
(* Vocabulary for the router's properties.                                 *)
(***************************************************************************)
\* the name with its provider prefix stripped matches the haiku or sonnet alias
MatchesAlias(model_name) ==
    \/ Contains(lower(clean_model(model_name)), "haiku")
    \/ Contains(lower(clean_model(model_name)), "sonnet")

RoutedOnce == Len(model_trail) >= 2
RoutedTwice == Len(model_trail) >= 3

(***************************************************************************)
(* C18 (as claimed): under a fixed configuration the router gives the same *)
(* output for the same input, and routing its own output again gives the   *)
(* same name, unless that output matches the haiku or sonnet alias.        *)
(***************************************************************************)
C18_RouteIsIdempotent ==
    /\ \A k \in 1..(Len(model_trail) - 1) :
          model_trail[k + 1] = validate_and_map_model(model_trail[k], Config)
    /\ RoutedTwice =>
          \/ model_trail[3] = model_trail[2]
          \/ MatchesAlias(model_trail[2])

(***************************************************************************)
(* C19: with one provider prefix stripped, a name containing haiku in any  *)
(* case goes to SMALL_MODEL, under gemini/ when the preferred provider is  *)
(* google and SMALL_MODEL is in the Gemini catalog and under openai/       *)
(* otherwise; a name containing sonnet but not haiku goes to BIG_MODEL the *)
(* same way; any other name in a provider's catalog gets that provider's   *)
(* prefix; every other name is returned unchanged.                         *)
(***************************************************************************)
C19_AliasRules ==
    RoutedOnce =>
        LET bare == clean_model(model_trail[1])
            routed == model_trail[2]
            gemini(configured) ==
                Config.PREFERRED_PROVIDER = "google" /\ configured \in GEMINI_MODELS
        IN  IF Contains(lower(bare), "haiku")
               THEN routed = (IF gemini(Config.SMALL_MODEL) THEN "gemini/" ELSE "openai/")
                             \o Config.SMALL_MODEL
            ELSE IF Contains(lower(bare), "sonnet")
               THEN routed = (IF gemini(Config.BIG_MODEL) THEN "gemini/" ELSE "openai/")
                             \o Config.BIG_MODEL
            ELSE IF bare \in GEMINI_MODELS THEN routed = "gemini/" \o bare
            ELSE IF bare \in OPENAI_MODELS THEN routed = "openai/" \o bare
            ELSE routed = model_trail[1]

C19_Witness ==
    /\ RoutedOnce
    /\ Config.PREFERRED_PROVIDER = "google"
    /\ Config.SMALL_MODEL = "gemini-2.0-flash"
    /\ model_trail[1] = "anthropic/claude-3-HAIKU"
    /\ model_trail[2] = "gemini/gemini-2.0-flash"

(***************************************************************************)
(* Concurrent streams.  Every call of handle_streaming is an async         *)
(* generator with its own locals; line 43 binds streaming_state to a new   *)
(* StreamingState object, whose attributes __init__ creates per instance.  *)
(* The objects live in heap, the generators hold references.  A generator  *)
(* is suspended at each yield and while it waits for its next chunk;       *)
(* _process_chunk awaits nothing that suspends, and the events of a chunk  *)
(* are yielded from the copy get_and_clear_events made, so one turn of the *)
(* loop is one step.                                                       *)
(***************************************************************************)
StreamIds == {"a", "b"}

MaxStreamChunks == 2

ConcurrentChunks ==
    {UsageChunk,
     Chunk(None, Some("He"), <<>>, None),
     Chunk(None, None, <<OpenFragment(7), ArgFragment(7, "{}")>>, None),
     Chunk(None, None, <<>>, Some("tool_calls"))}

\* Mutant of NewObject: not a new object, the first one ever made.
NewObject_Singleton(objects) == 1

\* the reference of the object a constructor call returns
NewObject(objects) == Len(objects) + 1

\* the heap after `StreamingState()` returned the object at ref
Construct(objects, ref) ==
    [o \in DOMAIN objects \cup {ref} |->
        IF o = ref THEN StreamingState ELSE objects[o]]

Generator ==
    [pc |-> "message_start", upstream |-> "open", consumed |-> <<>>,
     out |-> <<>>, streaming_state |-> None]

InitStreams ==
    /\ streams = [s \in StreamIds |-> Generator]
    /\ heap = <<>>
    /\ original_request = StreamRequest
    /\ StreamIdle
    /\ ResponseIdle
    /\ RequestIdle
    /\ RouterIdle

YieldMessageStartOf(s) ==
    /\ streams[s].pc = "message_start"
    /\ streams' = [streams EXCEPT
                      ![s].out = Append(@, MessageStartFrame(original_request.model)),
                      ![s].pc = "content_block_start"]
    /\ UNCHANGED <<heap, svars, original_request, rvars, ovars>>

YieldTextBlockStartOf(s) ==
    /\ streams[s].pc = "content_block_start"
    /\ streams' = [streams EXCEPT ![s].out = Append(@, TextBlockStartFrame),
                                  ![s].pc = "ping"]
    /\ UNCHANGED <<heap, svars, original_request, rvars, ovars>>

YieldPingOf(s) ==
    /\ streams[s].pc = "ping"
    /\ LET ref == NewObject(heap)
       IN  /\ heap' = Construct(heap, ref)
           /\ streams' = [streams EXCEPT ![s].out = Append(@, PingFrame),
                                         ![s].streaming_state = Some(ref),
                                         ![s].pc = "loop"]
    /\ UNCHANGED <<svars, original_request, rvars, ovars>>

ReadChunkOf(s, chunk) ==
    /\ streams[s].pc = "loop"
    /\ Len(streams[s].consumed) < MaxStreamChunks
    /\ LET ref == The(streams[s].streaming_state)
           state == _process_chunk(chunk, heap[ref])
       IN  IF _process_chunk_raises(chunk, heap[ref])
              THEN /\ streams' = [streams EXCEPT ![s].consumed = Append(@, chunk)]
                   /\ heap' = [heap EXCEPT ![ref] = state]
              ELSE /\ streams' = [streams EXCEPT
                                     ![s].consumed = Append(@, chunk),
                                     ![s].out = @ \o state.events]
                   /\ heap' = [heap EXCEPT ![ref] = get_and_clear_events(state)]
    /\ UNCHANGED <<svars, original_request, rvars, ovars>>

EndOfStreamOf(s) ==
    /\ streams[s].pc = "loop"
    /\ LET state == heap[The(streams[s].streaming_state)]
       IN  streams' = [streams EXCEPT
                          ![s].upstream = "ended",
                          ![s].out = IF ~state.has_sent_stop_reason
                                        THEN @ \o finalize(state) ELSE @,
                          ![s].pc = "done"]
    /\ UNCHANGED <<heap, svars, original_request, rvars, ovars>>

UpstreamErrorOf(s) ==
    /\ streams[s].pc = "loop"
    /\ streams' = [streams EXCEPT
                      ![s].upstream = "failed",
                      ![s].out = @ \o <<MessageDeltaFrame("error", 0),
                                        MessageStopFrame, DoneFrame>>,
                      ![s].pc = "done"]
    /\ UNCHANGED <<heap, svars, original_request, rvars, ovars>>

NextStreams ==
    \E s \in StreamIds :
        \/ YieldMessageStartOf(s)
        \/ YieldTextBlockStartOf(s)
        \/ YieldPingOf(s)
        \/ \E chunk \in ConcurrentChunks : ReadChunkOf(s, chunk)
        \/ EndOfStreamOf(s)
        \/ UpstreamErrorOf(s)

SpecStreams == InitStreams /\ [][NextStreams]_vars

(***************************************************************************)
(* Vocabulary: what handle_streaming emits over the chunks of one stream   *)
(* when nothing else runs, up to the position the generator has reached.   *)
(***************************************************************************)
RECURSIVE RunLoop(_, _, _)
RunLoop(chunks, state, frames) ==
    IF chunks = <<>>
       THEN [state |-> state, frames |-> frames]
       ELSE LET after == _process_chunk(Head(chunks), state)
            IN  IF _process_chunk_raises(Head(chunks), state)
                   THEN RunLoop(Tail(chunks), after, frames)
                   ELSE RunLoop(Tail(chunks), get_and_clear_events(after),
                                frames \o after.events)

FramesAlone(generator) ==
    LET run == RunLoop(generator.consumed, StreamingState, Preamble)
    IN  CASE generator.pc = "message_start" -> <<>>
          [] generator.pc = "content_block_start" -> SubSeq(Preamble, 1, 1)
          [] generator.pc = "ping" -> SubSeq(Preamble, 1, 2)
          [] generator.pc = "loop" -> run.frames
          [] generator.upstream = "failed" ->
                run.frames \o <<MessageDeltaFrame("error", 0),
                                MessageStopFrame, DoneFrame>>
          [] OTHER ->
                IF ~run.state.has_sent_stop_reason
                   THEN run.frames \o finalize(run.state) ELSE run.frames

(***************************************************************************)
(* C21: each stream has a StreamingState of its own, and however the turns *)
(* of two streams interleave, the frames emitted for a stream are the      *)
(* frames it emits over the same chunks when it runs alone.                *)
(***************************************************************************)
C21_StreamIndependence ==
    /\ \A s \in StreamIds : streams[s].out = FramesAlone(streams[s])
    /\ \A s, t \in StreamIds :
          (s # t /\ streams[s].streaming_state # None) =>
              streams[s].streaming_state # streams[t].streaming_state

C21_Witness ==
    /\ streams["a"].pc = "loop" /\ streams["b"].pc = "loop"
    /\ Len(streams["a"].consumed) = 2 /\ Len(streams["b"].consumed) = 1
    /\ heap[The(streams["a"].streaming_state)].last_tool_index = 1
    /\ heap[The(streams["a"].streaming_state)].has_sent_stop_reason
    /\ heap[The(streams["b"].streaming_state)].accumulated_text = "He"
    /\ heap[The(streams["b"].streaming_state)].last_tool_index = 0

(***************************************************************************)
(* C22: once a tool block has been opened no text_delta is emitted: a text *)
(* delta that arrives afterwards is appended to accumulated_text only, so  *)
(* no text_delta frame follows a tool_use content_block_start and the      *)
(* accumulated text is the concatenation of all text deltas read.          *)
(***************************************************************************)
C22_TextPrecedesToolUse ==
    /\ \A j \in 1..Len(out) :
          IsTextDelta(out[j]) => \A i \in 1..(j - 1) : ~IsToolStart(out[i])
    /\ streaming_state.accumulated_text = Concat(TextDeltasRead)

C22_Witness ==
    /\ Len(consumed) >= 2
    /\ CarriesToolCalls(consumed[1])
    /\ CarriesText(consumed[2])
    /\ streaming_state.accumulated_text = "llo"
    /\ ~streaming_state.text_sent

(***************************************************************************)
(* C23 (as claimed): in a stream whose upstream iteration ends normally,   *)
(* content_block_stop for index 0 is emitted exactly once, before the      *)
(* first tool_use content_block_start when there is a tool call, and       *)
(* before message_delta when there is none.                                *)
(***************************************************************************)
C23_TextBlockClosedOnce ==
    (pc = "done" /\ upstream = "ended") =>
        LET stops == {i \in 1..Len(out) : out[i] = BlockStopFrame(0)}
            starts == {i \in 1..Len(out) : IsToolStart(out[i])}
        IN  /\ Cardinality(stops) = 1
            /\ \A i \in stops :
                  \A j \in (IF starts # {} THEN starts
                                           ELSE Positions("message_delta")) :
                      i < j

(***************************************************************************)
(* C24 (as claimed): no tool block is stopped before the stream finalizes; *)
(* when it finalizes (first finish reason, or end of the upstream without  *)
(* one) with n tool blocks allocated, content_block_stop is emitted        *)
(* exactly once for each index 1..n, in ascending order, before            *)
(* message_delta and after the last delta of those blocks.                 *)
(***************************************************************************)
IsToolStop(f) == f.event = "content_block_stop" /\ f.index >= 1

IsInputJsonDelta(f) ==
    f.event = "content_block_delta" /\ f.delta.type = "input_json_delta"

C24_ToolBlocksClosedAtFinalization ==
    LET deltas == Positions("message_delta")
        stops == {i \in 1..Len(out) : IsToolStop(out[i])}
    IN  /\ deltas = {} => stops = {}
        /\ (pc = "done" /\ upstream = "ended") =>
              LET d == The(deltas)
                  n == Cardinality({i \in 1..d : IsToolStart(out[i])})
                  frames == SelectSeq(out, IsToolStop)
              IN  /\ [k \in 1..Len(frames) |-> frames[k].index] = [k \in 1..n |-> k]
                  /\ \A i \in stops : i < d
                  /\ \A i \in stops : \A j \in 1..Len(out) :
                        (IsInputJsonDelta(out[j]) /\ out[j].index = out[i].index)
                            => j < i

(***************************************************************************)
(* C25 (as claimed): a chunk that carries only usage emits no frame, and   *)
(* the message_delta of a stream that ended normally carries the           *)
(* completion_tokens of the last usage report read in that stream (0 when  *)
(* there was none), wherever the report sits relative to the finish chunk. *)
(***************************************************************************)
CarriesUsage(chunk) == chunk.usage # None

LastCompletionTokens ==
    LET reports == SelectSeq(consumed, CarriesUsage)
    IN  IF reports = <<>> THEN 0
        ELSE The(reports[Len(reports)].usage).completion_tokens

C25_FinalUsageInMessageDelta ==
    /\ (pc = "loop" /\ \A k \in 1..Len(consumed) : consumed[k] = UsageChunk) =>
          out = Preamble
    /\ streaming_state.output_tokens = LastCompletionTokens
    /\ (pc = "done" /\ upstream = "ended") =>
          \A i \in Positions("message_delta") :
              out[i].usage.output_tokens = LastCompletionTokens

(***************************************************************************)
(* C26: every non-empty argument fragment read produces exactly one        *)
(* input_json_delta whose partial_json is the fragment itself, valid JSON  *)
(* or not, on the block opened for the fragment's upstream index (a block  *)
(* is opened whenever the upstream index differs from that of the fragment *)
(* before); an empty fragment produces no delta.                           *)
(***************************************************************************)
RECURSIVE Fragments(_)
Fragments(chunks) ==
    IF chunks = <<>> THEN <<>>
    ELSE (IF HasChoice(Head(chunks))
             THEN Choice(Head(chunks)).delta.tool_calls ELSE <<>>)
         \o Fragments(Tail(chunks))

\* the number of blocks opened by the first m fragments
BlocksOpened(fragments, m) ==
    Cardinality({j \in 1..m :
                    j = 1 \/ fragments[j].index # fragments[j - 1].index})

C26_FragmentsForwardedVerbatim ==
    LET fragments == Fragments(consumed)
        NonEmpty(j) == fragments[j].function.arguments # ""
        carrying == SelectSeq([j \in 1..Len(fragments) |-> j], NonEmpty)
        deltas == SelectSeq(out, IsInputJsonDelta)
        starts == SelectSeq(out, IsToolStart)
    IN  /\ Len(deltas) = Len(carrying)
        /\ \A k \in 1..Len(deltas) :
              deltas[k] = InputJsonDeltaFrame(
                              BlocksOpened(fragments, carrying[k]),
                              fragments[carrying[k]].function.arguments)
        /\ Len(starts) = BlocksOpened(fragments, Len(fragments))
        /\ \A k \in 1..Len(starts) : starts[k].index = k

C26_Witness ==
    /\ SelectSeq(out, IsInputJsonDelta) =
          <<InputJsonDeltaFrame(1, "{\"q\":"), InputJsonDeltaFrame(1, "{\"q\":"),
            InputJsonDeltaFrame(2, "{}")>>
    /\ ~json_parses("{\"q\":") /\ json_parses("{}")
    /\ Len(Fragments(consumed)) = 5

(***************************************************************************)
(* Chunks that cannot be processed.  handle_streaming takes whatever the   *)
(* upstream iterator yields; _process_chunk raises on a chunk whose        *)
(* choices is None before it queues anything, and on a chunk whose         *)
(* finish_reason is a list after it queued the events of the chunk's text  *)
(* and the closing of the blocks.                                          *)
(***************************************************************************)
ListReasonChunk == Chunk(None, Some("He"), <<>>, Some("['stop']"))

IllTypedChunks == {NullChoicesChunk, ListReasonChunk}

SkipChunks ==
    IllTypedChunks
    \cup {UsageChunk,
          Chunk(None, Some("llo"), <<>>, None),
          Chunk(None, None, <<OpenFragment(5)>>, None),
          Chunk(None, None, <<>>, Some("stop"))}

NextIllTyped ==
    \/ YieldMessageStart
    \/ YieldTextBlockStart
    \/ YieldPing
    \/ \E chunk \in SkipChunks : ReadChunk(chunk)
    \/ EndOfStream
    \/ UpstreamError

SpecIllTyped == Init /\ [][NextIllTyped]_vars

(***************************************************************************)
(* C27 (as claimed): a chunk whose processing raises is skipped: none of   *)
(* its events is emitted, at once or with the events of a later chunk (so  *)
(* nothing is left queued between two turns of the loop), and a stream     *)
(* whose upstream iteration ends normally still carries the regular        *)
(* terminal sequence: one message_delta with a stop reason other than      *)
(* error, then message_stop, then [DONE].                                  *)
(***************************************************************************)
C27_FailedChunkSkipped ==
    /\ pc \in {"loop", "done"} => streaming_state.events = <<>>
    /\ (pc = "done" /\ upstream = "ended") =>
          \E i \in 1..(Len(out) - 2) :
              /\ out[i].event = "message_delta"
              /\ out[i].delta.stop_reason # "error"
              /\ out[i + 1] = MessageStopFrame
              /\ out[i + 2] = DoneFrame

(***************************************************************************)
(* C28: whenever a tool block has been opened (tool_index is set, which is *)
(* the case exactly when last_tool_index >= 1) the text block is closed,   *)
(* and a content_block_stop for index 0 precedes every tool_use            *)
(* content_block_start; the close logic of the first tool call closes the  *)
(* text block on each of its three branches.                               *)
(***************************************************************************)
CloseLogicStates ==
    {[StreamingState EXCEPT !.text_sent = sent, !.text_block_closed = closed,
                            !.accumulated_text = text] :
        sent \in BOOLEAN, closed \in BOOLEAN, text \in {"", "He"}}

C28_ToolOpenImpliesTextClosed ==
    /\ (streaming_state.tool_index # None) <=> (streaming_state.last_tool_index >= 1)
    /\ streaming_state.tool_index # None => streaming_state.text_block_closed
    /\ \A j \in 1..Len(out) :
          IsToolStart(out[j]) => \E i \in 1..(j - 1) : out[i] = BlockStopFrame(0)
    \* the close logic by itself, on every branch (the same in every state)
    /\ consumed = <<>> =>
          \A state \in CloseLogicStates :
              LET after == _handle_first_tool_call(state)
              IN  /\ after.text_block_closed
                  /\ ~state.text_block_closed =>
                        after.events[Len(after.events)] = BlockStopFrame(0)

C28_Witness ==
    /\ Len(consumed) = 2
    /\ consumed[1] = Chunk(None, None, <<OpenFragment(5)>>, None)
    /\ consumed[2] = Chunk(None, None, <<OpenFragment(7), ArgFragment(7, "{}")>>, None)
    /\ streaming_state.last_tool_index = 2
    /\ streaming_state.accumulated_text = ""
    /\ streaming_state.text_block_closed

(***************************************************************************)
(* C29: the concatenation of the text_delta payloads emitted so far is a   *)
(* prefix of accumulated_text, and while no tool block has been opened a   *)
(* non-empty accumulated_text has been sent (text_sent); so the flush of   *)
(* the whole accumulated text, on the first tool call or at finalization,  *)
(* never sends again text that was streamed.                               *)
(***************************************************************************)
C29_TextNeverSentTwice ==
    /\ StartsWith(streaming_state.accumulated_text, Concat(TextDeltasSent))
    /\ (streaming_state.accumulated_text # "" /\ streaming_state.tool_index = None)
          => streaming_state.text_sent
    /\ streaming_state.text_sent => TextDeltasSent # <<>>

C29_Witness ==
    /\ pc = "done" /\ upstream = "ended"
    /\ TextDeltasSent = <<"He", "llo">>
    /\ streaming_state.accumulated_text = "HelloHe"
    /\ streaming_state.last_tool_index = 1

(***************************************************************************)
(* C30 (as claimed): whenever the non-streaming response returned has      *)
(* stop_reason tool_use, its content holds at least one tool_use block,    *)
(* for every destination model and every upstream response.                *)
(***************************************************************************)
C30_ToolUseStopHasToolUseBlock ==
    (Returning /\ The(result).stop_reason = "tool_use") =>
        ToolUseBlocks(The(result)) # <<>>

=============================================================================
